---- MODULE Spec2Model ----
(***************************************************************************)
(* Model of the bizAuditTool pipeline: the AI insight extractor            *)
(* (modules/enhanced_data_processor.py), the SEO scorer and the crawl      *)
(* orchestrator (modules/web_scraper.py) and the page-speed opportunity    *)
(* normaliser (modules/pagespeed_api.py).                                  *)
(*                                                                         *)
(* Texts are TLA+ strings handled character by character (Len, SubSeq and  *)
(* \o on strings), so the regular expressions and the JSON parser of the   *)
(* response-repair code are modelled by what they do to the characters.    *)
(***************************************************************************)
EXTENDS Integers, Sequences, FiniteSets, TLC

VARIABLES
    \* ---- AI insight extractor (EnhancedDataProcessor) ----
    ai_pc,          \* position in analyze_website_comprehensive / _analyze_with_ai
    ai_prep,        \* does _prepare_content_for_ai raise ("ok" | "raise")
    ai_idx,         \* number of categories already processed (0..9)
    ai_analysis,    \* the ai_analysis dict built so far: category -> PyDict/PyNone
    ai_backend,     \* what the backend did on each category's call so far
    ai_faults,      \* number of calls so far that were not the well-formed reply
    ai_calls,       \* the g4f.ChatCompletion.create calls so far, by category, in order
    ai_result,      \* outcome of analyze_website_comprehensive
    \* ---- SEO scorer (WebScraper._perform_seo_analysis) ----
    seo_pc,         \* "idle" | "call" | "done"
    seo_pages,      \* the pages argument
    seo_meta_tags,  \* the meta_tags argument
    seo_images,     \* the images argument
    seo_result,     \* the returned dict
    \* ---- page-speed opportunities (PageSpeedAnalyzer._extract_opportunities) ----
    psi_pc,         \* "idle" | "call" | "done"
    psi_audits,     \* the audits dict of the Lighthouse result
    psi_opportunities, \* the returned list
    \* ---- impact tier (PageSpeedAnalyzer._calculate_impact) ----
    imp_pc,         \* "idle" | "call" | "done"
    imp_savings,    \* the arguments: two savings_ms and one savings_kb
    imp_impact,     \* the tier returned for each of the two savings_ms
    \* ---- crawl (WebScraper.scrape_website) ----
    cr_pc,          \* "idle" | "start" | "loop" | "done"
    cr_max_pages,   \* self.max_pages
    cr_base_url,    \* base_url, as given and then as normalised
    cr_found,       \* what _find_target_pages returns for the main page
    cr_targets,     \* additional_urls[:self.max_pages-1]
    cr_idx,         \* number of targets the loop has been through
    cr_all_pages,   \* all_pages
    cr_sleeps,      \* number of time.sleep(self.delay) calls so far
    cr_trace,       \* the page requests, target searches and sleeps so far, in order
    cr_result,      \* the returned website_data, or None
    \* ---- PageSpeed requests (PageSpeedAnalyzer.analyze_url) ----
    api_pc,         \* position in analyze_url ("start" | "request" | "done")
    api_url,        \* the URL to analyse
    api_results,    \* the results of the analyze calls that returned, in order
    api_measured,   \* how each analyze call ended, in order
    api_attempt,    \* attempt of the loop of _make_api_request (0..2)
    api_retries_left, \* what is left of the adapter's Retry total in this session.get
    api_requests,   \* HTTP requests sent by the current analyze call
    api_log,        \* how each failed session.get of the current call ended: the sleep or the exception after it
    api_last,       \* the last HTTP request's outcome and the sleeps since
    api_result,     \* what analyze_url returned or raised
    \* ---- prompt generator (PromptGenerator.generate_prompt) ----
    pg_pc,          \* position in generate_prompt ("start" | "done")
    pg_ai_analysis, \* what each list-valued field of the AI analysis holds
    pg_result,      \* what generate_prompt returned or raised
    \* ---- target pages (WebScraper._find_target_pages) ----
    tp_pc,          \* position in _find_target_pages ("start" | "done")
    tp_base_url,    \* the normalised URL of the main page
    tp_anchors,     \* the anchors of the main page's navigation-like elements and footer
    tp_target_urls, \* the URLs returned
    tp_max_pages,   \* self.max_pages of the crawls of this document
    tp_crawls,      \* per crawl of the document, the target URLs requested, in order
    \* ---- site compilation (WebScraper._compile_website_data) ----
    st_pc,          \* position in _compile_website_data ("start" | "done")
    st_pages,       \* the page_type and meta_tags of the scraped pages, in order
    st_css_files,   \* the stylesheet hrefs of the main page
    st_css,         \* what requesting and scanning the first stylesheet gives
    st_css_requests, \* requests sent for stylesheets
    st_website_data, \* the compiled website_data
    \* ---- page scraping (WebScraper._scrape_page, then _find_target_pages) ----
    sp_pc,          \* position ("start" | "scraped" | "done")
    sp_url,         \* the URL of the main page
    sp_title,       \* the text of its title element
    sp_document,    \* the elements of the document as fetched
    sp_page,        \* the page data _scrape_page returned
    sp_additional_urls \* the URLs _find_target_pages returned

ai_vars == <<ai_pc, ai_prep, ai_idx, ai_analysis, ai_backend, ai_faults, ai_calls, ai_result>>

seo_vars == <<seo_pc, seo_pages, seo_meta_tags, seo_images, seo_result>>

psi_vars == <<psi_pc, psi_audits, psi_opportunities>>

imp_vars == <<imp_pc, imp_savings, imp_impact>>

cr_vars == <<cr_pc, cr_max_pages, cr_base_url, cr_found, cr_targets, cr_idx,
             cr_all_pages, cr_sleeps, cr_trace, cr_result>>

api_vars == <<api_pc, api_url, api_results, api_measured, api_attempt,
              api_retries_left, api_requests, api_log, api_last, api_result>>

pg_vars == <<pg_pc, pg_ai_analysis, pg_result>>

tp_vars == <<tp_pc, tp_base_url, tp_anchors, tp_target_urls, tp_max_pages, tp_crawls>>

st_vars == <<st_pc, st_pages, st_css_files, st_css, st_css_requests, st_website_data>>

sp_vars == <<sp_pc, sp_url, sp_title, sp_document, sp_page, sp_additional_urls>>

vars == <<ai_vars, seo_vars, psi_vars, imp_vars, cr_vars, api_vars, pg_vars, tp_vars, st_vars, sp_vars>>

-----------------------------------------------------------------------------
(* Characters and strings *)

Ch(s, i) == SubSeq(s, i, i)

Max2(a, b) == IF a >= b THEN a ELSE b
Min2(a, b) == IF a <= b THEN a ELSE b

Quote == "\""

\* Python's str.isspace characters that can occur in the texts of the model
Whitespace == {" ", "\t", "\n", "\r"}

Digits == {"0", "1", "2", "3", "4", "5", "6", "7", "8", "9"}

LowerAlphabet == "abcdefghijklmnopqrstuvwxyz"

UpperAlphabet == "ABCDEFGHIJKLMNOPQRSTUVWXYZ"

LowerLetters == {Ch(LowerAlphabet, i) : i \in 1..Len(LowerAlphabet)}

UpperLetters == {Ch(UpperAlphabet, i) : i \in 1..Len(UpperAlphabet)}

\* the regular-expression class \w
WordChars == LowerLetters \cup UpperLetters \cup Digits \cup {"_"}

\* the least and the greatest element of a non-empty set of integers
MinOf(S) == CHOOSE x \in S : \A y \in S : x <= y
MaxOf(S) == CHOOSE x \in S : \A y \in S : x >= y

\* index of the first character of s at or after from that is in set (FirstIn) or
\* is not in set (FirstNotIn); Len(s) + 1 if there is none
FirstIn(s, from, set) ==
    LET hits == {i \in from..Len(s) : Ch(s, i) \in set}
    IN  IF hits = {} THEN Len(s) + 1 ELSE MinOf(hits)

FirstNotIn(s, from, set) ==
    LET hits == {i \in from..Len(s) : Ch(s, i) \notin set}
    IN  IF hits = {} THEN Len(s) + 1 ELSE MinOf(hits)

\* str.lower() on one character, then on a string (the string is halved so that
\* the evaluation stays shallow)
LowerCh(c) ==
    IF c \in UpperLetters
    THEN Ch(LowerAlphabet, CHOOSE i \in 1..Len(UpperAlphabet) : Ch(UpperAlphabet, i) = c)
    ELSE c

RECURSIVE StrLower(_)
StrLower(s) ==
    IF Len(s) = 0 THEN ""
    ELSE IF Len(s) = 1 THEN LowerCh(s)
    ELSE LET h == Len(s) \div 2
         IN  StrLower(SubSeq(s, 1, h)) \o StrLower(SubSeq(s, h + 1, Len(s)))

\* str.replace(old, new) for a one-character old
RECURSIVE StrReplaceCh(_, _, _)
StrReplaceCh(s, old, new) ==
    IF Len(s) = 0 THEN ""
    ELSE IF Len(s) = 1 THEN (IF s = old THEN new ELSE s)
    ELSE LET h == Len(s) \div 2
         IN  StrReplaceCh(SubSeq(s, 1, h), old, new)
             \o StrReplaceCh(SubSeq(s, h + 1, Len(s)), old, new)

\* str.strip()
Strip(s) ==
    LET first == FirstNotIn(s, 1, Whitespace)
        last == MaxOf({0} \cup {i \in 1..Len(s) : Ch(s, i) \notin Whitespace})
    IN  SubSeq(s, first, last)

\* index of the first occurrence of character c in s at or after from, 0 if none
FindCh(s, c, from) ==
    LET i == FirstIn(s, from, {c})
    IN  IF i > Len(s) THEN 0 ELSE i

\* str.split(sep) for a one-character sep: the list of pieces
RECURSIVE StrSplit(_, _)
StrSplit(s, sep) ==
    LET i == FindCh(s, sep, 1)
    IN  IF i = 0 THEN <<s>>
        ELSE <<SubSeq(s, 1, i - 1)>> \o StrSplit(SubSeq(s, i + 1, Len(s)), sep)

-----------------------------------------------------------------------------
(* Regular expressions (Python's re, backtracking semantics).  A pattern is *)
(* a sequence of atoms: a character class with a greedy or lazy repetition, *)
(* a lookahead (?=c|d) or (?=c|$), or the anchor $.  All patterns of        *)
(* _parse_ai_response have this shape.                                       *)

\* one character of the set
One(set) == [kind |-> "cls", in |-> set, neg |-> FALSE, min |-> 1, max |-> 1, lazy |-> FALSE]
\* set*  (greedy)
Star(set) == [kind |-> "cls", in |-> set, neg |-> FALSE, min |-> 0, max |-> -1, lazy |-> FALSE]
\* [^set]*  (greedy); NotStar({}) is .* under re.DOTALL
NotStar(set) == [kind |-> "cls", in |-> set, neg |-> TRUE, min |-> 0, max |-> -1, lazy |-> FALSE]
\* [^set]*?  (lazy)
NotStarLazy(set) == [kind |-> "cls", in |-> set, neg |-> TRUE, min |-> 0, max |-> -1, lazy |-> TRUE]
\* [^set]+?  (lazy)
NotPlusLazy(set) == [kind |-> "cls", in |-> set, neg |-> TRUE, min |-> 1, max |-> -1, lazy |-> TRUE]
\* (?=c|d), with orEnd also (?=c|$)
Look(set, orEnd) == [kind |-> "look", in |-> set, neg |-> orEnd, min |-> 0, max |-> 0, lazy |-> FALSE]
\* $
AtEnd == [kind |-> "end", in |-> {}, neg |-> FALSE, min |-> 0, max |-> 0, lazy |-> FALSE]

ReFail == [ok |-> FALSE, ends |-> <<>>]

\* Python's $ without re.MULTILINE: at the end, or before a newline that ends the string
IsAtEnd(s, pos) == pos = Len(s) + 1 \/ (pos = Len(s) /\ Ch(s, pos) = "\n")

\* Match atoms k.. of re at position pos of s; ends[j] is the position after the
\* j-th of these atoms.  A repetition may end at any position e up to the end of
\* the run of characters of its class; backtracking tries the longest e first
\* (greedy) or the shortest first (lazy) and keeps the first one after which the
\* rest of the pattern matches.
\* (Intermediate results are handed on as operator arguments, which TLC
\* evaluates once.)
RECURSIVE ReMatch(_, _, _, _)
ReMatch(re, s, k, pos) ==
    IF k > Len(re) THEN [ok |-> TRUE, ends |-> <<>>]
    ELSE
      LET a == re[k]
          Then(e, rest) ==
              IF rest.ok THEN [ok |-> TRUE, ends |-> <<e>> \o rest.ends] ELSE ReFail
          runEnd == IF a.neg THEN FirstIn(s, pos, a.in) ELSE FirstNotIn(s, pos, a.in)
          maxEnd == IF a.max < 0 THEN runEnd ELSE Min2(runEnd, pos + a.max)
          Pick(cands) ==
              IF cands = {} THEN ReFail
              ELSE LET e == IF a.lazy THEN MinOf({c.e : c \in cands})
                                      ELSE MaxOf({c.e : c \in cands})
                   IN  CHOOSE c \in cands : c.e = e
      IN  CASE a.kind = "end" ->
                 IF IsAtEnd(s, pos) THEN Then(pos, ReMatch(re, s, k + 1, pos)) ELSE ReFail
            [] a.kind = "look" ->
                 IF (pos <= Len(s) /\ Ch(s, pos) \in a.in) \/ (a.neg /\ IsAtEnd(s, pos))
                 THEN Then(pos, ReMatch(re, s, k + 1, pos)) ELSE ReFail
            [] OTHER ->
                 LET m == Pick({c \in {[e |-> e, m |-> ReMatch(re, s, k + 1, e)] :
                                          e \in (pos + a.min)..maxEnd} : c.m.ok})
                 IN  IF m = ReFail THEN ReFail ELSE Then(m.e, m.m)

\* re.search(re, s): the leftmost match at or after pos
ReSearch(re, s, pos) ==
    LET First(found) ==
            IF found = {} THEN [ok |-> FALSE, start |-> 0, ends |-> <<>>]
            ELSE CHOOSE f \in found : \A g \in found : f.start <= g.start
        Matches(all) == {[ok |-> TRUE, start |-> f.start, ends |-> f.m.ends] :
                            f \in {g \in all : g.m.ok}}
    IN  First(Matches({[start |-> p, m |-> ReMatch(re, s, 1, p)] : p \in pos..Len(s)}))

\* The text a replacement template stands for: a part is a literal or \k, the
\* characters matched by atom k (every group of the patterns here is one atom).
RECURSIVE ReExpand(_, _, _, _)
ReExpand(tpl, s, start, ends) ==
    IF tpl = <<>> THEN ""
    ELSE LET p == Head(tpl)
             from == IF p.grp = 1 THEN start ELSE ends[p.grp - 1]
         IN  (IF p.grp = 0 THEN p.lit ELSE SubSeq(s, from, ends[p.grp] - 1))
             \o ReExpand(Tail(tpl), s, start, ends)

Lit(text) == [grp |-> 0, lit |-> text]
Grp(k) == [grp |-> k, lit |-> ""]

\* re.sub(re, tpl, s) from position pos: replace the non-overlapping matches,
\* left to right (none of the patterns here matches the empty string).
RECURSIVE ReSub(_, _, _, _)
ReSub(re, tpl, s, pos) ==
    LET Replace(m) ==
            IF ~m.ok THEN SubSeq(s, pos, Len(s))
            ELSE SubSeq(s, pos, m.start - 1) \o ReExpand(tpl, s, m.start, m.ends)
                 \o ReSub(re, tpl, s, m.ends[Len(m.ends)])
    IN  Replace(ReSearch(re, s, pos))

-----------------------------------------------------------------------------
(* Python values of the insight records.  A field value is a string, a list *)
(* of strings, or some other JSON value kept as its text; a category's      *)
(* entry in ai_analysis is a dict, None, or a JSON value that is no dict.   *)

Str(x) == [kind |-> "str", s |-> x, l |-> <<>>]
List(xs) == [kind |-> "list", s |-> "", l |-> xs]
Raw(x) == [kind |-> "raw", s |-> x, l |-> <<>>]

EmptyDict == [k \in {} |-> Str("")]

PyDict(d) == [tag |-> "dict", d |-> d]
PyNone == [tag |-> "None", d |-> EmptyDict]
PyOther == [tag |-> "other", d |-> EmptyDict]

\* dict.get(key, default) on a dict's mapping
DictGet(d, key, default) == IF key \in DOMAIN d THEN d[key] ELSE default

\* Python truthiness of a field value and of an ai_analysis entry
ValueTruthy(v) ==
    CASE v.kind = "str" -> v.s # ""
      [] v.kind = "list" -> v.l # <<>>
      [] OTHER -> v.s \notin {"0", "false", "null", "{}", "[]"}

Truthy(x) == x.tag = "other" \/ (x.tag = "dict" /\ DOMAIN x.d # {})

-----------------------------------------------------------------------------
(* json.loads (strict), on the characters.  Every parser returns the        *)
(* position after what it read in next, 0 when the text is no JSON there.   *)
(* Strings are read up to the closing quote, a backslash keeping the next   *)
(* character; numbers are an optional sign, an integer part without a      *)
(* leading zero and an optional fraction.                                   *)

JsonFail == [next |-> 0, v |-> Raw("")]

SkipWs(s, i) == FirstNotIn(s, i, Whitespace)

\* position of the quote that closes the string whose content starts at i, 0 if
\* there is none or a control character comes first; a quote is escaped when an
\* odd number of backslashes stands before it
JsonStringEnd(s, i) ==
    LET closes(j) == /\ Ch(s, j) = Quote
                     /\ (j - Max2(i, 1 + MaxOf({0} \cup {b \in i..(j - 1) : Ch(s, b) # "\\"})))
                        % 2 = 0
        ends == {j \in i..Len(s) : closes(j)}
        e == MinOf(ends)
    IN  IF ends = {} THEN 0
        ELSE IF \E j \in i..(e - 1) : Ch(s, j) \in {"\t", "\n", "\r"} THEN 0
        ELSE e

SkipDigits(s, i) == FirstNotIn(s, i, Digits)

\* position after the number starting at i, 0 if there is none
JsonNumberEnd(s, i) ==
    LET d == IF Ch(s, i) = "-" THEN i + 1 ELSE i
        e == IF Ch(s, d) = "0" THEN d + 1 ELSE SkipDigits(s, d)
        f == IF Ch(s, e) = "." /\ SkipDigits(s, e + 1) > e + 1
             THEN SkipDigits(s, e + 1) ELSE e
    IN  IF d > Len(s) \/ e = d THEN 0 ELSE f

JsonLiterals == {"true", "false", "null"}

RECURSIVE JsonValue(_, _)
RECURSIVE JsonMembers(_, _, _)
RECURSIVE JsonItems(_, _, _, _)

\* the members of an object from position j (after "{" or ","), acc the members
\* read so far; a repeated key keeps its last value.  v is the dict.
JsonMembers(s, j, acc) ==
    LET Member(e, c, val) ==
            LET m == SkipWs(s, val.next)
                acc2 == (SubSeq(s, j + 1, e - 1) :> val.v) @@ acc
            IN  IF val.next = 0 THEN [next |-> 0, d |-> acc]
                ELSE IF Ch(s, m) = "," THEN JsonMembers(s, SkipWs(s, m + 1), acc2)
                ELSE IF Ch(s, m) = "}" THEN [next |-> m + 1, d |-> acc2]
                ELSE [next |-> 0, d |-> acc]
        Colon(e, c) ==
            IF e = 0 \/ Ch(s, c) # ":" THEN [next |-> 0, d |-> acc]
            ELSE Member(e, c, JsonValue(s, SkipWs(s, c + 1)))
        Key(e) == Colon(e, SkipWs(s, e + 1))
    IN  IF Ch(s, j) # Quote THEN [next |-> 0, d |-> acc]
        ELSE Key(JsonStringEnd(s, j + 1))

\* an object starting at the "{" at position i
JsonObject(s, i) ==
    LET j == SkipWs(s, i + 1)
    IN  IF Ch(s, j) = "}" THEN [next |-> j + 1, d |-> EmptyDict]
        ELSE JsonMembers(s, j, EmptyDict)

\* the items of the array that starts at position i, from position j, acc the
\* items read so far
JsonItems(s, i, j, acc) ==
    LET Item(val) ==
            LET m == SkipWs(s, val.next)
                items == Append(acc, val.v)
            IN  IF val.next = 0 THEN JsonFail
                ELSE IF Ch(s, m) = "," THEN JsonItems(s, i, SkipWs(s, m + 1), items)
                ELSE IF Ch(s, m) = "]"
                     THEN [next |-> m + 1,
                           v |-> IF \A n \in 1..Len(items) : items[n].kind = "str"
                                 THEN List([n \in 1..Len(items) |-> items[n].s])
                                 ELSE Raw(SubSeq(s, i, m))]
                ELSE JsonFail
    IN  Item(JsonValue(s, j))

JsonValue(s, i) ==
    LET c == Ch(s, i)
    IN  CASE i > Len(s) -> JsonFail
          [] c = Quote ->
               LET String(e) == IF e = 0 THEN JsonFail
                                ELSE [next |-> e + 1, v |-> Str(SubSeq(s, i + 1, e - 1))]
               IN  String(JsonStringEnd(s, i + 1))
          [] c = "{" ->
               LET Object(o) == IF o.next = 0 THEN JsonFail
                                ELSE [next |-> o.next, v |-> Raw(SubSeq(s, i, o.next - 1))]
               IN  Object(JsonObject(s, i))
          [] c = "[" ->
               LET j == SkipWs(s, i + 1)
               IN  IF Ch(s, j) = "]" THEN [next |-> j + 1, v |-> List(<<>>)]
                   ELSE JsonItems(s, i, j, <<>>)
          [] c \in Digits \cup {"-"} ->
               LET Number(e) == IF e = 0 THEN JsonFail
                                ELSE [next |-> e, v |-> Raw(SubSeq(s, i, e - 1))]
               IN  Number(JsonNumberEnd(s, i))
          [] \E lit \in JsonLiterals : SubSeq(s, i, Min2(Len(s), i + Len(lit) - 1)) = lit ->
               LET lit == CHOOSE x \in JsonLiterals :
                              SubSeq(s, i, Min2(Len(s), i + Len(x) - 1)) = x
               IN  [next |-> i + Len(lit), v |-> Raw(lit)]
          [] OTHER -> JsonFail

\* json.loads(s): ok is FALSE where json.loads raises JSONDecodeError; value is
\* the dict of an object, PyOther for any other JSON value
json_loads(s) ==
    LET i == SkipWs(s, 1)
        Whole(next, value) ==
            IF next = 0 \/ SkipWs(s, next) # Len(s) + 1
            THEN [ok |-> FALSE, value |-> PyNone]
            ELSE [ok |-> TRUE, value |-> value]
        Object(o) == Whole(o.next, PyDict(o.d))
        Other(v) == Whole(v.next, PyOther)
    IN  IF Ch(s, i) = "{" THEN Object(JsonObject(s, i)) ELSE Other(JsonValue(s, i))

-----------------------------------------------------------------------------
(* EnhancedDataProcessor: the default records *)

_get_default_brand_identity ==
    ("colors" :> List(<<"#667eea", "#764ba2">>))
    @@ ("tone" :> Str("Professional and trustworthy"))
    @@ ("personality" :> Str("Reliable and professional"))
    @@ ("values" :> List(<<"Quality", "Trust", "Professionalism">>))
    @@ ("positioning" :> Str("Professional service provider"))
    @@ ("visual_style" :> Str("Clean and modern"))
    @@ ("messaging" :> Str("Professional and solution-focused"))

_get_default_industry ==
    ("primary_industry" :> Str("Professional Services"))
    @@ ("sub_industry" :> Str("Consulting"))
    @@ ("market_position" :> Str("Professional service provider"))
    @@ ("competitors" :> Str("Other service providers in the industry"))
    @@ ("trends" :> Str("Digital transformation and online presence"))
    @@ ("target_market" :> Str("Businesses seeking professional services"))
    @@ ("challenges" :> Str("Standing out in a competitive market"))

_get_default_target_audience ==
    ("primary_audience" :> Str("Business owners and decision makers"))
    @@ ("demographics" :> Str("Adults 25-65, business professionals"))
    @@ ("psychographics" :> Str("Value quality and professionalism"))
    @@ ("pain_points" :> Str("Need reliable professional services"))
    @@ ("motivations" :> Str("Business growth and success"))
    @@ ("decision_makers" :> Str("Business owners and managers"))
    @@ ("user_personas" :> List(<<"Business Owner Sarah", "Manager Mike">>))

\* user_journey is written with arrows (U+2192) in the source; "->" stands for them
_get_default_website_goals ==
    ("primary_goal" :> Str("Lead generation"))
    @@ ("secondary_goals" :> List(<<"Brand awareness", "Information sharing">>))
    @@ ("conversion_actions" :> List(<<"Contact form submission", "Phone call">>))
    @@ ("success_metrics" :> List(<<"Lead generation rate", "Contact form submissions">>))
    @@ ("user_journey" :> Str("Awareness -> Interest -> Consideration -> Contact"))
    @@ ("call_to_actions" :> List(<<"Contact Us", "Get Quote", "Learn More">>))
    @@ ("conversion_funnel" :> List(<<"Landing page", "Service pages", "Contact page">>))

_get_default_value_propositions ==
    ("primary_vp" :> Str("Professional and reliable service"))
    @@ ("secondary_vps" :> List(<<"Quality work", "Customer satisfaction">>))
    @@ ("usp" :> Str("Professional expertise and reliability"))
    @@ ("benefits" :> List(<<"Quality service", "Professional results">>))
    @@ ("competitive_advantages" :> List(<<"Experience", "Professionalism">>))
    @@ ("trust_signals" :> List(<<"Testimonials", "Certifications">>))
    @@ ("proof_points" :> List(<<"Customer testimonials", "Case studies">>))

_get_default_visual_style ==
    ("color_palette" :> List(<<"#667eea", "#764ba2", "#ffffff", "#f8f9fa">>))
    @@ ("typography" :> Str("Professional sans-serif fonts"))
    @@ ("layout_style" :> Str("Clean and organized"))
    @@ ("visual_elements" :> Str("Professional images and icons"))
    @@ ("design_style" :> Str("Modern and professional"))
    @@ ("brand_consistency" :> Str("Consistent color scheme and typography"))
    @@ ("visual_hierarchy" :> Str("Clear information hierarchy"))

_get_default_content_strategy ==
    ("key_messages" :> List(<<"Professional service", "Quality results">>))
    @@ ("content_themes" :> List(<<"Professional expertise", "Quality service">>))
    @@ ("content_types" :> List(<<"Service pages", "About page", "Contact information">>))
    @@ ("tone_of_voice" :> Str("Professional and helpful"))
    @@ ("content_structure" :> Str("Clear sections with headings"))
    @@ ("call_to_actions" :> List(<<"Contact Us", "Learn More">>))
    @@ ("content_gaps" :> List(<<"More detailed service information", "Case studies">>))

_get_default_conversion_elements ==
    ("primary_ctas" :> List(<<"Contact Us", "Get Quote">>))
    @@ ("secondary_ctas" :> List(<<"Learn More", "Download Brochure">>))
    @@ ("trust_elements" :> List(<<"Testimonials", "Certifications">>))
    @@ ("social_proof" :> List(<<"Customer reviews", "Success stories">>))
    @@ ("urgency_elements" :> List(<<"Limited availability", "Special offers">>))
    @@ ("lead_magnets" :> List(<<"Free consultation", "Service guide">>))
    @@ ("conversion_funnel" :> List(<<"Landing page", "Service pages", "Contact form">>))

_get_default_technical_insights ==
    ("essential_features" :> List(<<"Contact forms", "Service pages", "About page">>))
    @@ ("integration_needs" :> List(<<"Email marketing", "Analytics">>))
    @@ ("performance_requirements" :> List(<<"Fast loading", "Mobile responsive">>))
    @@ ("seo_requirements" :> List(<<"Meta tags", "Structured data">>))
    @@ ("accessibility" :> List(<<"Alt text", "Keyboard navigation">>))
    @@ ("mobile_requirements" :> List(<<"Responsive design", "Touch-friendly">>))
    @@ ("security_needs" :> List(<<"HTTPS", "Form security">>))

\* the categories in the order _analyze_with_ai fills them
Categories ==
    <<"brand_identity", "industry_analysis", "target_audience", "website_goals",
      "value_propositions", "visual_style", "content_strategy",
      "conversion_elements", "technical_insights">>

CategorySet == {Categories[i] : i \in 1..Len(Categories)}

\* the default each category's except-handler and _get_fallback_analysis use
CategoryDefault(cat) ==
    CASE cat = "brand_identity" -> _get_default_brand_identity
      [] cat = "industry_analysis" -> _get_default_industry
      [] cat = "target_audience" -> _get_default_target_audience
      [] cat = "website_goals" -> _get_default_website_goals
      [] cat = "value_propositions" -> _get_default_value_propositions
      [] cat = "visual_style" -> _get_default_visual_style
      [] cat = "content_strategy" -> _get_default_content_strategy
      [] cat = "conversion_elements" -> _get_default_conversion_elements
      [] cat = "technical_insights" -> _get_default_technical_insights

\* variant: every category passes its own key as the analysis_type
AnalysisType_same_as_key(cat) == cat

\* the analysis_type each _analyze_<category> passes to _parse_ai_response
AnalysisType(cat) == IF cat = "industry_analysis" THEN "industry" ELSE cat

_get_default_analysis(analysis_type) ==
    CASE analysis_type = "brand_identity" -> PyDict(_get_default_brand_identity)
      [] analysis_type = "industry" -> PyDict(_get_default_industry)
      [] analysis_type = "target_audience" -> PyDict(_get_default_target_audience)
      [] analysis_type = "website_goals" -> PyDict(_get_default_website_goals)
      [] analysis_type = "value_propositions" -> PyDict(_get_default_value_propositions)
      [] analysis_type = "visual_style" -> PyDict(_get_default_visual_style)
      [] analysis_type = "content_strategy" -> PyDict(_get_default_content_strategy)
      [] analysis_type = "conversion_elements" -> PyDict(_get_default_conversion_elements)
      [] analysis_type = "technical_insights" -> PyDict(_get_default_technical_insights)
      [] OTHER -> PyDict(EmptyDict)

\* variant: the fallback analysis lacks the last category
_get_fallback_analysis_short ==
    [cat \in CategorySet \ {"technical_insights"} |-> PyDict(CategoryDefault(cat))]

_get_fallback_analysis == [cat \in CategorySet |-> PyDict(CategoryDefault(cat))]

-----------------------------------------------------------------------------
(* EnhancedDataProcessor: the backend call and the response parser *)

\* A Python value that is None or a str
NoneStr == [none |-> TRUE, text |-> ""]
SomeStr(t) == [none |-> FALSE, text |-> t]

\* _get_ai_response, given what g4f.ChatCompletion.create did: it raised
\* ("raise"), returned something that is no str ("nonstr") or returned text.
_get_ai_response(outcome) ==
    IF outcome.kind = "str" /\ outcome.text # ""
    THEN SomeStr(Strip(outcome.text))
    ELSE NoneStr

\* the patterns of _parse_ai_response
ReJsonBlock == <<One({"{"}), NotStar({}), One({"}"})>>
ReCommaBrace == <<One({","}), Star(Whitespace), One({"}"})>>
ReCommaBracket == <<One({","}), Star(Whitespace), One({"]"})>>
ReLineComment == <<One({"/"}), One({"/"}), NotStarLazy({"\n"}), Look({"\n"}, TRUE)>>
ReBlockComment == <<One({"/"}), One({"*"}), NotStarLazy({}), One({"*"}), One({"/"})>>
ReIncompleteArray ==
    <<One({Quote}), NotStar({Quote}), One({Quote}), One({":"}), Star(Whitespace),
      One({"["}), NotStar({"]"}), AtEnd>>
ReIncompleteObject ==
    <<One({Quote}), NotStar({Quote}), One({Quote}), One({":"}), Star(Whitespace),
      One({"{"}), NotStar({"}"}), AtEnd>>
ReUnquotedItem ==
    <<One({"["}), NotStarLazy({Quote}), One({","}), Star(Whitespace),
      NotPlusLazy({Quote, ",", "]"}), Look({",", "]"}, FALSE)>>
ReColon ==
    <<One({Quote} \cup WordChars), Star(Whitespace), One({":"}), Star(Whitespace),
      One({Quote} \cup WordChars)>>

\* the clean-up of the {...} block, in the order of the source
CleanJson(json_str) ==
    LET Newlines(s) == StrReplaceCh(StrReplaceCh(s, "\n", " "), "\r", " ")
        CommaBrace(s) == ReSub(ReCommaBrace, <<Lit("}")>>, s, 1)
        CommaBracket(s) == ReSub(ReCommaBracket, <<Lit("]")>>, s, 1)
        LineComment(s) == ReSub(ReLineComment, <<>>, s, 1)
        BlockComment(s) == ReSub(ReBlockComment, <<>>, s, 1)
        IncompleteArray(s) == ReSub(ReIncompleteArray, <<>>, s, 1)
        IncompleteObject(s) == ReSub(ReIncompleteObject, <<>>, s, 1)
        UnquotedItem(s) ==
            ReSub(ReUnquotedItem, <<Lit("["), Grp(2), Lit(", \""), Grp(5), Lit("\"")>>, s, 1)
        Colon(s) == ReSub(ReColon, <<Grp(1), Lit(": "), Grp(5)>>, s, 1)
    IN  Colon(UnquotedItem(UnquotedItem(IncompleteObject(IncompleteArray(
            BlockComment(LineComment(CommaBracket(CommaBrace(Newlines(json_str))))))))))

\* the dict _structure_text_response collects from the lines, acc so far
RECURSIVE StructureLines(_, _)
StructureLines(lines, acc) ==
    LET Pair(line, key, value) ==
            IF value # "" /\ Len(key) > 2
            THEN StructureLines(Tail(lines), (key :> Str(value)) @@ acc)
            ELSE StructureLines(Tail(lines), acc)
        Split(line, c) ==
            IF c # 0 /\ Len(line) > 3
            THEN Pair(line,
                      StrReplaceCh(StrReplaceCh(StrLower(Strip(SubSeq(line, 1, c - 1))),
                                                " ", "_"), "-", "_"),
                      Strip(SubSeq(line, c + 1, Len(line))))
            ELSE StructureLines(Tail(lines), acc)
        Line(line) == Split(line, FindCh(line, ":", 1))
    IN  IF lines = <<>> THEN acc ELSE Line(Strip(Head(lines)))

_structure_text_response(response, analysis_type) ==
    LET Result(structured_data) ==
            IF Cardinality(DOMAIN structured_data) < 2
            THEN _get_default_analysis(analysis_type)
            ELSE PyDict(structured_data)
    IN  IF response = "" THEN _get_default_analysis(analysis_type)
        ELSE Result(StructureLines(StrSplit(response, "\n"), EmptyDict))

\* _parse_ai_response: the handler of json.JSONDecodeError only logs, so the
\* function ends without a return statement there and its value is None.
_parse_ai_response(response, analysis_type) ==
    IF response.none \/ response.text = "" THEN _get_default_analysis(analysis_type)
    ELSE
      LET Loaded(loaded) == IF loaded.ok THEN loaded.value ELSE PyNone
          Parse(json_match) ==
              IF json_match.ok
              THEN Loaded(json_loads(CleanJson(
                       SubSeq(response.text, json_match.start,
                              json_match.ends[Len(json_match.ends)] - 1))))
              ELSE _structure_text_response(response.text, analysis_type)
      IN  Parse(ReSearch(ReJsonBlock, response.text, 1))

\* _analyze_<category>: neither call raises, so its except branch is not taken
AnalyzeCategory(cat, outcome) ==
    _parse_ai_response(_get_ai_response(outcome), AnalysisType(cat))

-----------------------------------------------------------------------------
(* EnhancedDataProcessor: combining the analyses *)

\* x.get(...) raises AttributeError unless x is a dict
HasGet(entry) == entry.tag = "dict"

\* ai_analysis.get(cat, {}).get(key, default); ai_analysis holds all nine keys
GetField(ai, cat, key, default) == DictGet(ai[cat].d, key, default)

\* _combine_insights; the url and total_pages of the overview come from the
\* basic analysis and are left out
_combine_insights(ai) ==
    [raised |-> \E cat \in {"industry_analysis", "website_goals", "target_audience"} :
                    ~HasGet(ai[cat]),
     value |->
       [website_overview |->
          [industry |-> GetField(ai, "industry_analysis", "primary_industry", Str("Unknown")),
           primary_goal |-> GetField(ai, "website_goals", "primary_goal", Str("Unknown")),
           target_audience |-> GetField(ai, "target_audience", "primary_audience", Str("Unknown"))],
        brand_identity |-> ai["brand_identity"],
        content_strategy |-> ai["content_strategy"],
        conversion_strategy |-> ai["conversion_elements"],
        technical_requirements |-> ai["technical_insights"],
        value_propositions |-> ai["value_propositions"],
        visual_design |-> ai["visual_style"]]]

\* one recommendation: its fixed text and, for the primary goal, the goal value
Recommendation(text, arg) == [text |-> text, arg |-> arg]

_generate_comprehensive_recommendations(ai) ==
    LET goal == GetField(ai, "website_goals", "primary_goal", Raw("null"))
        when(cond, rec) == IF cond THEN <<rec>> ELSE <<>>
    IN  [raised |-> ~HasGet(ai["website_goals"]),
         value |->
           when(Truthy(ai["brand_identity"]),
                Recommendation("Implement consistent brand identity across all pages", Str("")))
           \o when(ValueTruthy(goal),
                   Recommendation("Optimize website for primary goal: ", goal))
           \o when(Truthy(ai["target_audience"]),
                   Recommendation("Create content tailored to identified target audience", Str("")))
           \o when(Truthy(ai["value_propositions"]),
                   Recommendation("Prominently display value propositions on homepage", Str("")))
           \o when(Truthy(ai["conversion_elements"]),
                   Recommendation("Implement strategic call-to-action buttons", Str("")))]

NoResult == [status |-> "none", ai_analysis |-> [c \in {} |-> PyNone]]

\* analyze_website_comprehensive after _analyze_with_ai has returned ai: the
\* result, or the Exception("Comprehensive analysis failed: ...") it raises
ComprehensiveResult(ai) ==
    IF _combine_insights(ai).raised \/ _generate_comprehensive_recommendations(ai).raised
    THEN [status |-> "raised", ai_analysis |-> [c \in {} |-> PyNone]]
    ELSE [status |-> "returned", ai_analysis |-> ai]

-----------------------------------------------------------------------------
(* The backend replies the model draws from *)

ValidJson == "{\"tone\": \"bold\", \"colors\": [\"blue\", \"green\"]}"
GoalJson == "{\"primary_goal\": \"sales\", \"primary_audience\": \"shoppers\"}"
TrailingCommaJson == "{\"tone\": \"bold\", \"colors\": [\"blue\", \"green\"],}"
UnquotedArrayJson == "{\"tone\": \"bold\", \"colors\": [blue, green],}"
EmptyObjectJson == "{}"
OneKeyJson == "{\"tone\": \"bold\"}"
TwoLineText == "Tone: bold\nColors: blue, green"
OneLineText == "Tone: bold"
BlankText == "  \n"

ResponseTexts ==
    {ValidJson, GoalJson, TrailingCommaJson, UnquotedArrayJson, EmptyObjectJson,
     OneKeyJson, TwoLineText, OneLineText, BlankText, ""}

Raised == [kind |-> "raise", text |-> ""]
NonString == [kind |-> "nonstr", text |-> ""]
Text(t) == [kind |-> "str", text |-> t]

BackendOutcomes == {Raised, NonString} \cup {Text(t) : t \in ResponseTexts}

\* the reply that needs no repair
WellFormed == Text(ValidJson)

\* at most MaxFaults of the nine calls of a run get another reply than WellFormed
MaxFaults == 2

\* what each _analyze_<category> returns for each reply (computed once)
AnalysisTable ==
    [cat \in CategorySet |-> [o \in BackendOutcomes |-> AnalyzeCategory(cat, o)]]

-----------------------------------------------------------------------------
(* analyze_website_comprehensive as a state machine: _prepare_content_for_ai, *)
(* the nine backend calls of _analyze_with_ai, then the combination.          *)

\* the SEO scorer is not running
SeoIdle ==
    /\ seo_pc = "idle"
    /\ seo_pages = <<>>
    /\ seo_meta_tags = <<>>
    /\ seo_images = <<>>
    /\ seo_result = <<>>

\* _extract_opportunities is not running
PsiIdle ==
    /\ psi_pc = "idle"
    /\ psi_audits = <<>>
    /\ psi_opportunities = <<>>

\* _calculate_impact is not running
ImpIdle ==
    /\ imp_pc = "idle"
    /\ imp_savings = <<>>
    /\ imp_impact = <<>>

\* scrape_website is not running
CrIdle ==
    /\ cr_pc = "idle"
    /\ cr_max_pages = 0
    /\ cr_base_url = ""
    /\ cr_found = <<>>
    /\ cr_targets = <<>>
    /\ cr_idx = 0
    /\ cr_all_pages = <<>>
    /\ cr_sleeps = 0
    /\ cr_trace = <<>>
    /\ cr_result = <<>>

\* analyze_url is not running
ApiIdle ==
    /\ api_pc = "idle"
    /\ api_url = ""
    /\ api_results = <<>>
    /\ api_measured = <<>>
    /\ api_attempt = 0
    /\ api_retries_left = 0
    /\ api_requests = 0
    /\ api_log = <<>>
    /\ api_last = <<>>
    /\ api_result = <<>>

\* generate_prompt is not running
PgIdle ==
    /\ pg_pc = "idle"
    /\ pg_ai_analysis = <<>>
    /\ pg_result = <<>>

\* _find_target_pages is not running
TpIdle ==
    /\ tp_pc = "idle"
    /\ tp_base_url = ""
    /\ tp_anchors = <<>>
    /\ tp_target_urls = {}
    /\ tp_max_pages = 0
    /\ tp_crawls = <<>>

\* _compile_website_data is not running
StIdle ==
    /\ st_pc = "idle"
    /\ st_pages = <<>>
    /\ st_css_files = <<>>
    /\ st_css = <<>>
    /\ st_css_requests = 0
    /\ st_website_data = <<>>

\* the main page is not being scraped
SpIdle ==
    /\ sp_pc = "idle"
    /\ sp_url = ""
    /\ sp_title = ""
    /\ sp_document = <<>>
    /\ sp_page = <<>>
    /\ sp_additional_urls = {}

\* the extractor is not running
AiIdle ==
    /\ ai_pc = "idle"
    /\ ai_prep = "ok"
    /\ ai_idx = 0
    /\ ai_analysis = <<>>
    /\ ai_backend = <<>>
    /\ ai_faults = 0
    /\ ai_calls = <<>>
    /\ ai_result = <<>>

\* what the extractor leaves alone
NotAi == <<seo_vars, psi_vars, imp_vars, cr_vars, api_vars, pg_vars, tp_vars, st_vars, sp_vars>>

AiInit ==
    /\ SeoIdle
    /\ PsiIdle
    /\ ImpIdle
    /\ CrIdle
    /\ ApiIdle
    /\ PgIdle
    /\ TpIdle
    /\ StIdle
    /\ SpIdle
    /\ ai_pc = "start"
    /\ ai_prep \in {"ok", "raise"}
    /\ ai_idx = 0
    /\ ai_analysis = [c \in {} |-> PyNone]
    /\ ai_backend = [c \in {} |-> Raised]
    /\ ai_faults = 0
    /\ ai_calls = <<>>
    /\ ai_result = NoResult

\* _analyze_with_ai up to its first backend call: _prepare_content_for_ai raises
\* (a page whose page_type is None) and the outer handler returns the fallback
\* analysis, or it returns the digest
AiPrepare ==
    /\ ai_pc = "start"
    /\ IF ai_prep = "raise"
       THEN ai_pc' = "returned" /\ ai_analysis' = _get_fallback_analysis
       ELSE ai_pc' = "categories" /\ ai_analysis' = ai_analysis
    /\ UNCHANGED <<ai_prep, ai_idx, ai_backend, ai_faults, ai_calls, ai_result, NotAi>>

\* the backend calls of _analyze_<category> under a retry after a reply that
\* is not the well-formed one
BackendCalls_retry(cat, o) == IF o = WellFormed THEN <<cat>> ELSE <<cat, cat>>

\* the backend calls of _analyze_<category>: its one _get_ai_response, which
\* has one g4f.ChatCompletion.create and returns None when that raises or
\* replies with no string
BackendCalls(cat, o) == <<cat>>

\* the next category's _analyze_<category>: one backend call, then the parse
AiCategory ==
    /\ ai_pc = "categories"
    /\ ai_idx < Len(Categories)
    /\ \E o \in BackendOutcomes :
         LET cat == Categories[ai_idx + 1]
         IN  /\ o # WellFormed => ai_faults < MaxFaults
             /\ ai_faults' = IF o # WellFormed THEN ai_faults + 1 ELSE ai_faults
             /\ ai_analysis' = (cat :> AnalysisTable[cat][o]) @@ ai_analysis
             /\ ai_backend' = (cat :> o) @@ ai_backend
             /\ ai_calls' = ai_calls \o BackendCalls(cat, o)
    /\ ai_idx' = ai_idx + 1
    /\ ai_pc' = IF ai_idx' = Len(Categories) THEN "returned" ELSE "categories"
    /\ UNCHANGED <<ai_prep, ai_result, NotAi>>

\* analyze_website_comprehensive after _analyze_with_ai returned
AiCombine ==
    /\ ai_pc = "returned"
    /\ ai_result' = ComprehensiveResult(ai_analysis)
    /\ ai_pc' = "done"
    /\ UNCHANGED <<ai_prep, ai_idx, ai_analysis, ai_backend, ai_faults, ai_calls, NotAi>>

AiNext == AiPrepare \/ AiCategory \/ AiCombine

SpecAI == AiInit /\ [][AiNext]_vars

-----------------------------------------------------------------------------
(* Properties of the nine-category analysis *)

\* the replies after which a category counts as failed at the backend
BackendFailed(o) == o.kind \in {"raise", "nonstr"} \/ (o.kind = "str" /\ o.text = "")

\* C1: once _analyze_with_ai has returned, whatever each backend call did
\* and whether or not the content digest could be built, the returned map has
\* exactly the nine category keys, and every run that starts ends by
\* returning a map (no exception leaves _analyze_with_ai).
C1_NineKeys ==
    /\ ai_pc \in {"start", "categories", "returned", "done"}
    /\ ai_pc \in {"returned", "done"} =>
         /\ DOMAIN ai_analysis = CategorySet
         /\ Cardinality(DOMAIN ai_analysis) = 9

\* C1 witness: _analyze_with_ai returned after one backend call raised and
\* another replied with unparseable text
C1_Witness ==
    /\ ai_pc = "returned"
    /\ ai_idx = Len(Categories)
    /\ \E c \in DOMAIN ai_backend : ai_backend[c] = Raised
    /\ \E c \in DOMAIN ai_backend : ai_backend[c] = Text(OneLineText)


\* C2: every value of the returned map is a non-empty record: never None and
\* never an empty map.
C2_NonEmptyRecords ==
    ai_pc \in {"returned", "done"} =>
        \A cat \in DOMAIN ai_analysis :
            /\ ai_analysis[cat].tag = "dict"
            /\ ai_analysis[cat].d # EmptyDict

\* C3: a category whose backend call raised, or returned an empty or a
\* non-string reply, holds exactly that category's default record; for
\* brand_identity that record has the colors #667eea, #764ba2 and the tone
\* "Professional and trustworthy".
C3_DefaultOnBackendFailure ==
    /\ \A cat \in DOMAIN ai_backend :
          BackendFailed(ai_backend[cat]) => ai_analysis[cat] = PyDict(CategoryDefault(cat))
    /\ ("brand_identity" \in DOMAIN ai_backend /\ BackendFailed(ai_backend["brand_identity"])) =>
          /\ ai_analysis["brand_identity"].d["colors"] = List(<<"#667eea", "#764ba2">>)
          /\ ai_analysis["brand_identity"].d["tone"] = Str("Professional and trustworthy")

\* C3 witness: the three kinds of backend failure have happened in one run,
\* one of them for industry_analysis
C3_Witness ==
    /\ ai_pc = "returned"
    /\ "industry_analysis" \in DOMAIN ai_backend
    /\ BackendFailed(ai_backend["industry_analysis"])
    /\ \E c \in DOMAIN ai_backend : ai_backend[c] = Raised
    /\ \E c \in DOMAIN ai_backend : ai_backend[c] = NonString \/ ai_backend[c] = Text("")

\* C4: a reply holding a braces block that still fails the strict parse
\* after the cleanup gives either a recovered map whose colors are
\* ["blue", "green"] or the category's default record, never None.
C4_RecoveredOrDefault ==
    \A cat \in DOMAIN ai_backend :
        ai_backend[cat] = Text(UnquotedArrayJson) =>
            \/ ai_analysis[cat] = PyDict(CategoryDefault(cat))
            \/ /\ ai_analysis[cat].tag = "dict"
               /\ "colors" \in DOMAIN ai_analysis[cat].d
               /\ ai_analysis[cat].d["colors"] = List(<<"blue", "green">>)

\* the replies that cannot be parsed into a record of at least two keys
Unparseable(o) ==
    o.kind = "str" /\ o.text \in {UnquotedArrayJson, OneLineText, BlankText}

\* C5: when analyze_website_comprehensive ends it has returned a result, and
\* in it every category whose extraction failed (backend error or a reply
\* that cannot be parsed) holds the category's default record.
C5_DegradedButContinues ==
    ai_pc = "done" =>
        /\ ai_result.status = "returned"
        /\ \A cat \in DOMAIN ai_backend :
              (BackendFailed(ai_backend[cat]) \/ Unparseable(ai_backend[cat])) =>
                  /\ cat \in DOMAIN ai_result.ai_analysis
                  /\ ai_result.ai_analysis[cat] = PyDict(CategoryDefault(cat))

-----------------------------------------------------------------------------
(* WebScraper._perform_seo_analysis *)

\* n characters of text
RECURSIVE Filler(_)
Filler(n) ==
    IF n = 0 THEN ""
    ELSE IF n % 2 = 1 THEN "x" \o Filler(n - 1)
    ELSE Filler(n \div 2) \o Filler(n \div 2)

\* str.startswith
StartsWith(s, prefix) == Len(s) >= Len(prefix) /\ SubSeq(s, 1, Len(prefix)) = prefix

\* sub in s
Contains(s, sub) ==
    \E i \in 1..(Len(s) - Len(sub) + 1) : SubSeq(s, i, i + Len(sub) - 1) = sub

\* meta_tags.get(key): "" stands for None as well, both are falsy and of length 0
MetaGet(meta_tags, key) == IF key \in DOMAIN meta_tags THEN meta_tags[key] ELSE ""

\* next((page for page in pages if page['page_type'] == 'home'),
\*      pages[0] if pages else None): the index of the page, 0 for None
HomePageIndex(pages) ==
    IF \E i \in 1..Len(pages) : pages[i].page_type = "home"
    THEN MinOf({i \in 1..Len(pages) : pages[i].page_type = "home"})
    ELSE IF pages # <<>> THEN 1 ELSE 0

\* sum of len(page['headings'].get('h1', [])) over the pages
RECURSIVE H1Count(_)
H1Count(pages) ==
    IF pages = <<>> THEN 0 ELSE Len(Head(pages).h1) + H1Count(Tail(pages))

\* one check of the analysis: the issue or the strength it appends
Issue(text) == [issues |-> <<text>>, strengths |-> <<>>]
Strength(text) == [issues |-> <<>>, strengths |-> <<text>>]
NoFinding == [issues |-> <<>>, strengths |-> <<>>]

CheckMetaDescription(meta_tags) ==
    IF MetaGet(meta_tags, "description") = "" THEN Issue("Missing meta description")
    ELSE IF Len(MetaGet(meta_tags, "description")) > 160
         THEN Issue("Meta description too long (>160 characters)")
    ELSE Strength("Meta description present and appropriate length")

\* variant: a home page without a title is passed over
CheckTitle_skips_empty(pages) ==
    IF HomePageIndex(pages) = 0 \/ pages[HomePageIndex(pages)].title = "" THEN NoFinding
    ELSE IF Len(pages[HomePageIndex(pages)].title) > 60
         THEN Issue("Page title too long (>60 characters)")
    ELSE Strength("Page title present and appropriate length")

CheckTitle(pages) ==
    IF HomePageIndex(pages) = 0 THEN NoFinding
    ELSE IF pages[HomePageIndex(pages)].title = "" THEN Issue("Missing page title")
    ELSE IF Len(pages[HomePageIndex(pages)].title) > 60
         THEN Issue("Page title too long (>60 characters)")
    ELSE Strength("Page title present and appropriate length")

CheckHeadings(pages) ==
    IF H1Count(pages) = 0 THEN Issue("No H1 tags found")
    ELSE IF H1Count(pages) > Len(pages) THEN Issue("Multiple H1 tags found on some pages")
    ELSE Strength("Appropriate H1 tag usage")

\* variant: a site without images gets no finding on alt text
CheckImages_silent(images) ==
    LET images_without_alt == Cardinality({i \in 1..Len(images) : ~images[i].has_alt})
    IN  IF images = <<>> THEN NoFinding
        ELSE IF images_without_alt > 0
        THEN Issue(ToString(images_without_alt) \o " images missing alt text")
        ELSE Strength("All images have alt text")

CheckImages(images) ==
    LET images_without_alt == Cardinality({i \in 1..Len(images) : ~images[i].has_alt})
    IN  IF images_without_alt > 0
        THEN Issue(ToString(images_without_alt) \o " images missing alt text")
        ELSE Strength("All images have alt text")

CheckHttps(pages) ==
    IF \E i \in 1..Len(pages) : StartsWith(pages[i].url, "https://")
    THEN Strength("Site uses HTTPS")
    ELSE Issue("Site not using HTTPS")

\* the recommendation _generate_seo_recommendations appends for one issue
RecommendationFor(text) ==
    LET For(issue) ==
            IF Contains(issue, "meta description")
            THEN <<"Add a compelling meta description of 150-160 characters that summarizes the page content">>
            ELSE IF Contains(issue, "title")
            THEN <<"Create descriptive, unique titles of 50-60 characters for each page">>
            ELSE IF Contains(issue, "h1")
            THEN <<"Use exactly one H1 tag per page that clearly describes the page content">>
            ELSE IF Contains(issue, "alt text")
            THEN <<"Add descriptive alt text to all images for better accessibility and SEO">>
            ELSE IF Contains(issue, "https")
            THEN <<"Implement HTTPS to improve security and search rankings">>
            ELSE <<>>
    IN  For(StrLower(text))

\* the issue texts _perform_seo_analysis can append, for up to n images
SeoIssueTexts(n) ==
    {"Missing meta description", "Meta description too long (>160 characters)",
     "Missing page title", "Page title too long (>60 characters)",
     "No H1 tags found", "Multiple H1 tags found on some pages",
     "Site not using HTTPS"}
    \cup {ToString(k) \o " images missing alt text" : k \in 1..n}

MaxSeoPages == 2
MaxSeoImages == 1

\* RecommendationFor, computed once per issue text
RecommendationTable ==
    [issue \in SeoIssueTexts(MaxSeoImages) |-> RecommendationFor(issue)]

\* _generate_seo_recommendations
RECURSIVE _generate_seo_recommendations(_)
_generate_seo_recommendations(issues) ==
    IF issues = <<>> THEN <<>>
    ELSE RecommendationTable[Head(issues)] \o _generate_seo_recommendations(Tail(issues))

\* variant: the score is not clamped and counts five points per issue
SeoScore_five_per_issue(seo_issues) == 100 - (Len(seo_issues) * 5)

\* 'seo_score': max(0, 100 - (len(seo_issues) * 10))
SeoScore(seo_issues) == Max2(0, 100 - (Len(seo_issues) * 10))

_perform_seo_analysis(pages, meta_tags, images) ==
    LET Result(checks) ==
            LET seo_issues == checks[1].issues \o checks[2].issues \o checks[3].issues
                              \o checks[4].issues \o checks[5].issues
            IN  [issues |-> seo_issues,
                 strengths |-> checks[1].strengths \o checks[2].strengths
                               \o checks[3].strengths \o checks[4].strengths
                               \o checks[5].strengths,
                 seo_score |-> SeoScore(seo_issues),
                 recommendations |-> _generate_seo_recommendations(seo_issues)]
    IN  Result(<<CheckMetaDescription(meta_tags), CheckTitle(pages), CheckHeadings(pages),
                 CheckImages(images), CheckHttps(pages)>>)

-----------------------------------------------------------------------------
(* The arguments the SEO scorer is called with *)

\* all sequences over S of at most n elements
SeqsUpTo(S, n) == UNION {[1..k -> S] : k \in 0..n}

SeoUrls == {"https://example.com", "http://example.com"}
SeoTitles == {"", Filler(60), Filler(61)}
SeoPageTypes == {"home", "about"}
SeoH1s == {<<>>, <<"Welcome">>, <<"Welcome", "Offers">>}

\* the fields of a page dict that the analysis reads
SeoPages == [url : SeoUrls, title : SeoTitles, page_type : SeoPageTypes, h1 : SeoH1s]

\* the merged meta tags: without a description, or with one of 160 or of 161 characters
SeoMetaTags ==
    {<<>>} \cup {("description" :> d) : d \in {Filler(160), Filler(161)}}

SeoImages == [has_alt : BOOLEAN]

SeoInit ==
    /\ AiIdle
    /\ PsiIdle
    /\ ImpIdle
    /\ CrIdle
    /\ ApiIdle
    /\ PgIdle
    /\ TpIdle
    /\ StIdle
    /\ SpIdle
    /\ seo_pc = "call"
    /\ seo_pages \in SeqsUpTo(SeoPages, MaxSeoPages)
    /\ seo_meta_tags \in SeoMetaTags
    /\ seo_images \in SeqsUpTo(SeoImages, MaxSeoImages)
    /\ seo_result = <<>>

\* what the SEO scorer leaves alone
NotSeo == <<ai_vars, psi_vars, imp_vars, cr_vars, api_vars, pg_vars, tp_vars, st_vars, sp_vars>>

\* one call of _perform_seo_analysis
SeoAssess ==
    /\ seo_pc = "call"
    /\ seo_result' = _perform_seo_analysis(seo_pages, seo_meta_tags, seo_images)
    /\ seo_pc' = "done"
    /\ UNCHANGED <<seo_pages, seo_meta_tags, seo_images, NotSeo>>

SeoNext == SeoAssess

SpecSeo == SeoInit /\ [][SeoNext]_vars

\* the five checks, each by the words its findings and its recommendation carry
SeoCheckWords ==
    <<[finding |-> "meta description", advice |-> "meta description"],
      [finding |-> "title", advice |-> "titles"],
      [finding |-> "h1", advice |-> "H1 tag"],
      [finding |-> "alt text", advice |-> "alt text"],
      [finding |-> "https", advice |-> "HTTPS"]>>

\* C30: for a non-empty list of pages each of the five checks gives exactly
\* one entry, an issue or a strength, so issues and strengths have five
\* entries together; the score is 100 minus ten per issue, one of 50, 60, 70,
\* 80, 90, 100; and recommendations has one entry per issue, the advice of
\* that issue's check, in the order of the issues
C30_FiveFindings ==
    (seo_pc = "done" /\ seo_pages # <<>>) =>
        LET findings == seo_result.issues \o seo_result.strengths
            About(text, c) == Contains(StrLower(text), SeoCheckWords[c].finding)
        IN  /\ Len(seo_result.issues) + Len(seo_result.strengths) = 5
            /\ \A c \in 1..5 :
                Cardinality({k \in 1..Len(findings) : About(findings[k], c)}) = 1
            /\ seo_result.seo_score = 100 - 10 * Len(seo_result.issues)
            /\ seo_result.seo_score \in {50, 60, 70, 80, 90, 100}
            /\ Len(seo_result.recommendations) = Len(seo_result.issues)
            /\ \A k \in 1..Len(seo_result.issues) :
                \E c \in 1..5 :
                    /\ About(seo_result.issues[k], c)
                    /\ Contains(seo_result.recommendations[k], SeoCheckWords[c].advice)

\* a site that fails all five checks: five issues, score 50, five
\* recommendations
C30_Witness ==
    /\ seo_pc = "done"
    /\ seo_pages # <<>>
    /\ Len(seo_result.issues) = 5
    /\ seo_result.seo_score = 50
    /\ Len(seo_result.recommendations) = 5

\* C6: every assessment's score is 100 minus ten per issue, clamped at 0,
\* and lies between 0 and 100.
C6_ScoreFromIssues ==
    seo_pc = "done" =>
        /\ seo_result.seo_score =
             (IF 100 - 10 * Len(seo_result.issues) > 0
              THEN 100 - 10 * Len(seo_result.issues) ELSE 0)
        /\ seo_result.seo_score >= 0
        /\ seo_result.seo_score <= 100

\* C6 witness: an assessment with all five checks failing, and so a score of 50
C6_Witness ==
    /\ seo_pc = "done"
    /\ Len(seo_result.issues) = 5
    /\ seo_result.seo_score = 50

\* the single page of Scenario A: no title, one H1, an https URL
ScenarioAPage(page) ==
    /\ page.title = ""
    /\ Len(page.h1) = 1
    /\ StartsWith(page.url, "https://")

\* a single-page site as in Scenario A, with no meta description and no
\* image lacking alt text, has been assessed
ScenarioA ==
    /\ seo_pc = "done"
    /\ Len(seo_pages) = 1
    /\ ScenarioAPage(seo_pages[1])
    /\ "description" \notin DOMAIN seo_meta_tags
    /\ \A i \in 1..Len(seo_images) : seo_images[i].has_alt

\* s is among the elements of xs
Includes(xs, s) == \E i \in 1..Len(xs) : xs[i] = s

\* C7 as stated: Scenario A has the one issue "Missing meta description",
\* strengths including the H1 and the HTTPS one, and the score 90.
C7_ScenarioA_Stated ==
    ScenarioA =>
        /\ seo_result.issues = <<"Missing meta description">>
        /\ Includes(seo_result.strengths, "Appropriate H1 tag usage")
        /\ Includes(seo_result.strengths, "Site uses HTTPS")
        /\ seo_result.seo_score = 90

\* C7 amended: Scenario A has the two issues "Missing meta description" and
\* "Missing page title", in that order, strengths including the H1 and the
\* HTTPS one, and the score 80.
C7_ScenarioA ==
    ScenarioA =>
        /\ seo_result.issues = <<"Missing meta description", "Missing page title">>
        /\ Includes(seo_result.strengths, "Appropriate H1 tag usage")
        /\ Includes(seo_result.strengths, "Site uses HTTPS")
        /\ seo_result.seo_score = 80

\* C7 witness: Scenario A assessed, with an image that has alt text
C7_Witness == ScenarioA /\ Len(seo_images) = 1

-----------------------------------------------------------------------------
(* PageSpeedAnalyzer: impact tiers and the opportunities list *)

\* savings_kb is a quotient of a byte count: num / den kilobytes
Kb(num, den) == [num |-> num, den |-> den]

\* savings_kb > n
KbGreater(savings_kb, n) == savings_kb.num > n * savings_kb.den

\* variant: the HIGH threshold is reached at exactly 1000 ms
_calculate_impact_inclusive(savings_ms, savings_kb) ==
    IF savings_ms >= 1000 \/ KbGreater(savings_kb, 100) THEN "HIGH"
    ELSE IF savings_ms > 500 \/ KbGreater(savings_kb, 50) THEN "MEDIUM"
    ELSE IF savings_ms > 100 \/ KbGreater(savings_kb, 10) THEN "LOW"
    ELSE "MINIMAL"

_calculate_impact(savings_ms, savings_kb) ==
    IF savings_ms > 1000 \/ KbGreater(savings_kb, 100) THEN "HIGH"
    ELSE IF savings_ms > 500 \/ KbGreater(savings_kb, 50) THEN "MEDIUM"
    ELSE IF savings_ms > 100 \/ KbGreater(savings_kb, 10) THEN "LOW"
    ELSE "MINIMAL"

\* the code point order of the capital letters
CharCode(c) == CHOOSE i \in 1..Len(UpperAlphabet) : Ch(UpperAlphabet, i) = c

\* a < b on str: by the first differing character, a proper prefix being smaller
StrLess(a, b) ==
    LET differ == {k \in 1..Min2(Len(a), Len(b)) : Ch(a, k) # Ch(b, k)}
    IN  IF differ = {} THEN Len(a) < Len(b)
        ELSE CharCode(Ch(a, MinOf(differ))) < CharCode(Ch(b, MinOf(differ)))

\* list.sort(key=lambda x: x['impact'], reverse=True): descending by the key
\* as a str, entries of equal key keeping their order. InsertByImpact puts x
\* behind the entries already placed whose key is not smaller than x's.
InsertByImpact(sorted, x) ==
    LET smaller == {i \in 1..Len(sorted) : StrLess(sorted[i].impact, x.impact)}
        at == IF smaller = {} THEN Len(sorted) + 1 ELSE MinOf(smaller)
    IN  SubSeq(sorted, 1, at - 1) \o <<x>> \o SubSeq(sorted, at, Len(sorted))

RECURSIVE SortByImpact(_, _)
SortByImpact(sorted, rest) ==
    IF rest = <<>> THEN sorted
    ELSE SortByImpact(InsertByImpact(sorted, Head(rest)), Tail(rest))

opportunity_audits ==
    <<"render-blocking-resources", "unused-css-rules", "unused-javascript",
      "modern-image-formats", "offscreen-images", "minify-css", "minify-javascript",
      "enable-text-compression", "properly-size-images", "efficient-animated-content",
      "preload-lcp-image", "uses-optimized-images">>

\* an audit of the result: score in hundredths, and the two savings of its
\* details; a key that is absent is not in the domain
AuditGet(audit, key, default) == IF key \in DOMAIN audit THEN audit[key] ELSE default

\* the entry appended for one failed audit
Opportunity(audit_id, audit) ==
    LET savings_ms == AuditGet(audit, "overallSavingsMs", 0)
        bytes == AuditGet(audit, "overallSavingsBytes", 0)
        savings_kb == IF bytes # 0 THEN Kb(bytes, 1024) ELSE Kb(0, 1)
    IN  [id |-> audit_id,
         score |-> AuditGet(audit, "score", 0),
         savings_ms |-> savings_ms,
         savings_kb |-> savings_kb,
         impact |-> _calculate_impact(savings_ms, savings_kb)]

\* the loop over opportunity_audits from the k-th id on
RECURSIVE CollectOpportunities(_, _)
CollectOpportunities(audits, k) ==
    IF k > Len(opportunity_audits) THEN <<>>
    ELSE
      LET audit_id == opportunity_audits[k]
          audit == IF audit_id \in DOMAIN audits THEN audits[audit_id] ELSE <<>>
      IN  (IF audit # <<>> /\ AuditGet(audit, "score", 100) < 100
           THEN <<Opportunity(audit_id, audit)>> ELSE <<>>)
          \o CollectOpportunities(audits, k + 1)

_extract_opportunities(audits) == SortByImpact(<<>>, CollectOpportunities(audits, 1))

-----------------------------------------------------------------------------
(* The audits _extract_opportunities is called with *)

\* only the first MaxAudits ids of opportunity_audits occur in the result
MaxAudits == 3

\* an audit that passed, one without a score, and failed audits with and
\* without each of the two savings
AuditChoices ==
    {("score" :> 100), ("overallSavingsMs" :> 1200)}
    \cup {("score" :> 50) @@ ms @@ bytes :
            ms \in {<<>>} \cup {("overallSavingsMs" :> v) : v \in {300, 600, 1200}},
            bytes \in {<<>>, ("overallSavingsBytes" :> 60000)}}

AuditDicts ==
    UNION {[ids -> AuditChoices] :
             ids \in SUBSET {opportunity_audits[k] : k \in 1..MaxAudits}}

PsiInit ==
    /\ AiIdle
    /\ SeoIdle
    /\ ImpIdle
    /\ CrIdle
    /\ ApiIdle
    /\ PgIdle
    /\ TpIdle
    /\ StIdle
    /\ SpIdle
    /\ psi_pc = "call"
    /\ psi_audits \in AuditDicts
    /\ psi_opportunities = <<>>

\* what _extract_opportunities leaves alone
NotPsi == <<ai_vars, seo_vars, imp_vars, cr_vars, api_vars, pg_vars, tp_vars, st_vars, sp_vars>>

\* one call of _extract_opportunities
PsiExtract ==
    /\ psi_pc = "call"
    /\ psi_opportunities' = _extract_opportunities(psi_audits)
    /\ psi_pc' = "done"
    /\ UNCHANGED <<psi_audits, NotPsi>>

PsiNext == PsiExtract

SpecPsi == PsiInit /\ [][PsiNext]_vars

\* the rank of a tier: HIGH > MEDIUM > LOW > MINIMAL
ImpactRank(impact) ==
    CASE impact = "HIGH" -> 3
      [] impact = "MEDIUM" -> 2
      [] impact = "LOW" -> 1
      [] impact = "MINIMAL" -> 0

\* C8: the returned opportunities are in descending order of impact rank: no
\* entry has a lower rank than an entry behind it.
C8_SortedByRank ==
    psi_pc = "done" =>
        \A i, j \in 1..Len(psi_opportunities) :
            i < j => ImpactRank(psi_opportunities[i].impact)
                     >= ImpactRank(psi_opportunities[j].impact)

-----------------------------------------------------------------------------
(* The savings _calculate_impact is called with *)

SavingsMs == {0, 100, 101, 500, 501, 1000, 1001}
SavingsKb == {Kb(0, 1)} \cup {Kb(bytes, 1024) :
                 bytes \in {10240, 10241, 51200, 51201, 102400, 102401}}

ImpInit ==
    /\ AiIdle
    /\ SeoIdle
    /\ PsiIdle
    /\ CrIdle
    /\ ApiIdle
    /\ PgIdle
    /\ TpIdle
    /\ StIdle
    /\ SpIdle
    /\ imp_pc = "call"
    /\ imp_savings \in [ms : SavingsMs, ms_more : SavingsMs, kb : SavingsKb]
    /\ imp_savings.ms <= imp_savings.ms_more
    /\ imp_impact = <<>>

\* what _calculate_impact leaves alone
NotImp == <<ai_vars, seo_vars, psi_vars, cr_vars, api_vars, pg_vars, tp_vars, st_vars, sp_vars>>

\* _calculate_impact for the smaller and for the larger savings_ms
ImpCalculate ==
    /\ imp_pc = "call"
    /\ imp_impact' = [of_ms |-> _calculate_impact(imp_savings.ms, imp_savings.kb),
                      of_more |-> _calculate_impact(imp_savings.ms_more, imp_savings.kb)]
    /\ imp_pc' = "done"
    /\ UNCHANGED <<imp_savings, NotImp>>

ImpNext == ImpCalculate

SpecImpact == ImpInit /\ [][ImpNext]_vars

\* C9: the tier is HIGH above 1000 ms or 100 KB, else MEDIUM above 500 ms or
\* 50 KB, else LOW above 100 ms or 10 KB, else MINIMAL, every comparison
\* strict; and with the same savings_kb the larger savings_ms never gets the
\* lower tier.
C9_TiersAndMonotonic ==
    imp_pc = "done" =>
        LET ms == imp_savings.ms
            kb1024 == IF imp_savings.kb.den = 1024 THEN imp_savings.kb.num
                      ELSE imp_savings.kb.num * 1024
        IN  /\ imp_impact.of_ms = "HIGH" <=> (ms > 1000 \/ kb1024 > 102400)
            /\ imp_impact.of_ms = "MEDIUM" <=>
                   (~(ms > 1000 \/ kb1024 > 102400) /\ (ms > 500 \/ kb1024 > 51200))
            /\ imp_impact.of_ms = "LOW" <=>
                   (~(ms > 500 \/ kb1024 > 51200) /\ (ms > 100 \/ kb1024 > 10240))
            /\ imp_impact.of_ms = "MINIMAL" <=> ~(ms > 100 \/ kb1024 > 10240)
            /\ ImpactRank(imp_impact.of_more) >= ImpactRank(imp_impact.of_ms)

\* C9 witness: 1000 ms is still MEDIUM and 1001 ms is HIGH, at 10 KB exactly
C9_Witness ==
    /\ imp_pc = "done"
    /\ imp_savings = [ms |-> 1000, ms_more |-> 1001, kb |-> Kb(10240, 1024)]
    /\ imp_impact = [of_ms |-> "MEDIUM", of_more |-> "HIGH"]

-----------------------------------------------------------------------------
(* WebScraper.scrape_website *)

\* url.rstrip('/')
RstripSlash(url) ==
    LET kept == {i \in 1..Len(url) : Ch(url, i) # "/"}
    IN  IF kept = {} THEN "" ELSE SubSeq(url, 1, MaxOf(kept))

_normalize_url(url) ==
    IF ~(StartsWith(url, "http://") \/ StartsWith(url, "https://"))
    THEN RstripSlash("https://" \o url)
    ELSE RstripSlash(url)

\* xs[:n] of Python: a negative n counts from the end
PySliceTo(xs, n) ==
    IF n >= 0 THEN SubSeq(xs, 1, Min2(n, Len(xs)))
    ELSE SubSeq(xs, 1, Max2(Len(xs) + n, 0))

\* the website_data None
NoWebsiteData == [none |-> TRUE, pages_analyzed |-> 0, pages |-> <<>>]

\* all_internal_links / all_external_links: the pages' lists, one after the other
RECURSIVE AllLinks(_, _)
AllLinks(pages, kind) ==
    IF pages = <<>> THEN <<>>
    ELSE Head(pages).links[kind] \o AllLinks(Tail(pages), kind)

\* variant: the links are counted by occurrence
CountLinkUrls_by_occurrence(links) == Len(links)

\* len(set(link['url'] for link in links))
CountLinkUrls(links) == Cardinality({links[i].url : i \in 1..Len(links)})

\* _compile_website_data: of the compiled dict, the page count, the per-page
\* summaries and the two link counts
_compile_website_data(pages, base_url) ==
    [none |-> FALSE,
     pages_analyzed |-> Len(pages),
     pages |-> [i \in 1..Len(pages) |-> [url |-> pages[i].url]],
     internal_links_count |-> CountLinkUrls(AllLinks(pages, "internal")),
     external_links_count |-> CountLinkUrls(AllLinks(pages, "external"))]

\* _scrape_page(url) when the request succeeds: the page's url and the links
\* _extract_links found on it
PageData(url, links) == [url |-> url, links |-> links]

\* one entry of a page's link lists
Link(url, text) == [url |-> url, text |-> text]

\* the links found on a page: none; the same internal URL twice; two
\* internal URLs and the same external URL twice
PageLinkChoices ==
    {[internal |-> <<>>, external |-> <<>>],
     [internal |-> <<Link("https://example.com/about", "About"),
                     Link("https://example.com/about", "About us")>>,
      external |-> <<Link("https://partner.org/", "Partner")>>],
     [internal |-> <<Link("https://example.com/about", "About"),
                     Link("https://example.com/contact", "Contact")>>,
      external |-> <<Link("https://partner.org/", "Partner"),
                     Link("https://partner.org/", "Our partner")>>]}

\* the events of cr_trace: a _scrape_page(url) call and whether it returned
\* page data, a _find_target_pages call, a time.sleep(self.delay) call
Fetched(url, ok) == [op |-> "fetch", url |-> url, ok |-> ok]
FoundTargets == [op |-> "find_targets", url |-> "", ok |-> TRUE]
Slept == [op |-> "sleep", url |-> "", ok |-> TRUE]

MaxMaxPages == 3
MaxFound == 3

\* the first n target URLs found on the main page of base_url
FoundUrls(base_url, n) == [k \in 1..n |-> base_url \o "/about/" \o ToString(k)]

CrInit ==
    /\ AiIdle
    /\ SeoIdle
    /\ PsiIdle
    /\ ImpIdle
    /\ ApiIdle
    /\ PgIdle
    /\ TpIdle
    /\ StIdle
    /\ SpIdle
    /\ cr_pc = "start"
    /\ cr_max_pages \in 0..MaxMaxPages
    /\ cr_base_url \in {"example.com", "http://example.com/"}
    /\ cr_found \in {FoundUrls(_normalize_url(cr_base_url), n) : n \in 0..MaxFound}
    /\ cr_targets = <<>>
    /\ cr_idx = 0
    /\ cr_all_pages = <<>>
    /\ cr_sleeps = 0
    /\ cr_trace = <<>>
    /\ cr_result = <<>>

\* what scrape_website leaves alone
NotCr == <<ai_vars, seo_vars, psi_vars, imp_vars, api_vars, pg_vars, tp_vars, st_vars, sp_vars>>

\* scrape_website up to its loop: the URL is normalised and the main page is
\* scraped; if that fails the exception is caught and None is returned
CrMainPage ==
    /\ cr_pc = "start"
    /\ cr_base_url' = _normalize_url(cr_base_url)
    /\ \E main_page_ok \in BOOLEAN, links \in PageLinkChoices :
         IF main_page_ok
         THEN /\ cr_all_pages' = <<PageData(cr_base_url', links)>>
              /\ cr_targets' = PySliceTo(cr_found, cr_max_pages - 1)
              /\ cr_trace' = <<Fetched(cr_base_url', TRUE), FoundTargets>>
              /\ cr_pc' = "loop"
              /\ cr_result' = cr_result
         ELSE /\ cr_result' = NoWebsiteData
              /\ cr_trace' = <<Fetched(cr_base_url', FALSE)>>
              /\ cr_pc' = "done"
              /\ UNCHANGED <<cr_all_pages, cr_targets>>
    /\ UNCHANGED <<cr_max_pages, cr_found, cr_idx, cr_sleeps, NotCr>>

\* variant: a target that cannot be scraped ends the loop
CrScrapeTarget_stops_on_failure ==
    /\ cr_pc = "loop"
    /\ cr_idx < Len(cr_targets)
    /\ \E page_ok \in BOOLEAN, links \in PageLinkChoices :
         /\ cr_all_pages' = IF page_ok
                            THEN Append(cr_all_pages, PageData(cr_targets[cr_idx + 1], links))
                            ELSE cr_all_pages
         /\ cr_trace' = cr_trace \o <<Fetched(cr_targets[cr_idx + 1], page_ok), Slept>>
         /\ cr_idx' = IF page_ok THEN cr_idx + 1 ELSE Len(cr_targets)
    /\ cr_sleeps' = cr_sleeps + 1
    /\ UNCHANGED <<cr_pc, cr_max_pages, cr_base_url, cr_found, cr_targets, cr_result, NotCr>>

\* one turn of the loop: the next target is scraped and kept if that
\* succeeded, then the scraper sleeps
CrScrapeTarget ==
    /\ cr_pc = "loop"
    /\ cr_idx < Len(cr_targets)
    /\ \E page_ok \in BOOLEAN, links \in PageLinkChoices :
         /\ cr_all_pages' = IF page_ok
                            THEN Append(cr_all_pages, PageData(cr_targets[cr_idx + 1], links))
                            ELSE cr_all_pages
         /\ cr_trace' = cr_trace \o <<Fetched(cr_targets[cr_idx + 1], page_ok), Slept>>
    /\ cr_sleeps' = cr_sleeps + 1
    /\ cr_idx' = cr_idx + 1
    /\ UNCHANGED <<cr_pc, cr_max_pages, cr_base_url, cr_found, cr_targets, cr_result, NotCr>>

\* after the loop: the data is compiled and returned
CrCompile ==
    /\ cr_pc = "loop"
    /\ cr_idx = Len(cr_targets)
    /\ cr_result' = _compile_website_data(cr_all_pages, cr_base_url)
    /\ cr_pc' = "done"
    /\ UNCHANGED <<cr_max_pages, cr_base_url, cr_found, cr_targets, cr_idx,
                   cr_all_pages, cr_sleeps, cr_trace, NotCr>>

CrNext == CrMainPage \/ CrScrapeTarget \/ CrCompile

SpecCrawl == CrInit /\ [][CrNext]_vars

\* C10: every returned SiteDocument has pages_analyzed equal to the number
\* of its pages and at most max_pages, whatever non-negative max_pages the
\* scraper has and however many target URLs were found.
C10_PagesWithinMax ==
    (cr_pc = "done" /\ ~cr_result.none) =>
        /\ cr_result.pages_analyzed = Len(cr_result.pages)
        /\ cr_result.pages_analyzed <= cr_max_pages


\* the URLs of the links of one kind on the pages that were scraped
LinkUrlsOnPages(kind) ==
    UNION {{cr_all_pages[p].links[kind][i].url : i \in 1..Len(cr_all_pages[p].links[kind])} :
             p \in 1..Len(cr_all_pages)}

\* C11: internal_links_count is the number of distinct internal link URLs
\* on all pages and external_links_count the number of distinct external
\* ones; a URL that occurs several times counts once.
C11_LinksCountedOnce ==
    (cr_pc = "done" /\ ~cr_result.none) =>
        /\ cr_result.internal_links_count = Cardinality(LinkUrlsOnPages("internal"))
        /\ cr_result.external_links_count = Cardinality(LinkUrlsOnPages("external"))

\* C11 witness: a site of two pages with the same internal URL four times
\* and the same external URL twice, each counted once
C11_Witness ==
    /\ cr_pc = "done"
    /\ ~cr_result.none
    /\ Len(cr_all_pages) = 2
    /\ Len(AllLinks(cr_all_pages, "internal")) = 4
    /\ Len(AllLinks(cr_all_pages, "external")) = 2
    /\ cr_result.internal_links_count = 1
    /\ cr_result.external_links_count = 1


\* the page requests of the crawl so far, in order
PageFetches == LET IsFetch(e) == e.op = "fetch" IN SelectSeq(cr_trace, IsFetch)

\* the URLs of a sequence of events or pages
Urls(xs) == [i \in 1..Len(xs) |-> xs[i].url]

\* C12: when the root page cannot be fetched or parsed the crawl ends at
\* once: no target search, no further page request, no SiteDocument, and the
\* caller gets an error result labelled "could not access main page".
C12_RootFailureAborts ==
    (cr_pc = "done" /\ cr_all_pages = <<>>) =>
        /\ cr_trace = <<Fetched(cr_base_url, FALSE)>>
        /\ cr_result.none
        /\ "error" \in DOMAIN cr_result
        /\ StrLower(cr_result.error) = "could not access main page"

\* C13: whatever targets fail, every target is requested, and the pages of
\* the SiteDocument are the root page followed by the targets that were
\* parsed, in the order they were requested.
C13_FailedTargetsSkipped ==
    (cr_pc = "done" /\ ~cr_result.none) =>
        LET Parsed(e) == e.ok
        IN  /\ Urls(PageFetches) = <<cr_base_url>> \o cr_targets
            /\ Urls(cr_result.pages) = Urls(SelectSeq(PageFetches, Parsed))

\* C13 witness: of two targets the first failed and the second was still
\* scraped
C13_Witness ==
    /\ cr_pc = "done"
    /\ ~cr_result.none
    /\ Len(cr_targets) = 2
    /\ [i \in 1..Len(PageFetches) |-> PageFetches[i].ok] = <<TRUE, FALSE, TRUE>>
    /\ Urls(cr_result.pages) = <<cr_base_url, cr_targets[2]>>

\* C14: between any two consecutive page requests of a crawl, the root
\* page's included, the scraper sleeps.
C14_SleepBetweenFetches ==
    \A i, j \in 1..Len(cr_trace) :
        (/\ i < j
         /\ cr_trace[i].op = "fetch"
         /\ cr_trace[j].op = "fetch"
         /\ \A k \in (i + 1)..(j - 1) : cr_trace[k].op # "fetch")
        => \E k \in (i + 1)..(j - 1) : cr_trace[k].op = "sleep"

\* ---------------------------------------------------------------------------
\* PageSpeed requests: analyze_url -> analyze -> _make_api_request, sent
\* through the session whose HTTPAdapter carries a urllib3 Retry
\* ---------------------------------------------------------------------------

\* Retry(total=3, backoff_factor=1, status_forcelist=[429, 500, 502, 503, 504])
retry_total == 3

backoff_factor == 1

status_forcelist == {429, 500, 502, 503, 504}

\* the loop bound and the base delay of _make_api_request
max_retries == 3

base_delay == 2

RECURSIVE Pow2(_)
Pow2(n) == IF n = 0 THEN 1 ELSE 2 * Pow2(n - 1)

\* what one HTTP request to the API can meet: a response with a status code,
\* or a transport failure
Status(code) == [kind |-> "status", status |-> code]

Failure(what) == [kind |-> "failure", what |-> what]

HttpOutcomes ==
    {Status(c) : c \in {200, 400, 403, 404, 429, 500}}
        \cup {Failure(w) : w \in {"connect_timeout", "read_timeout", "connection_error"}}

\* a response body: the performance score of the categories, in hundredths
Bodies == {40, 90}

\* the adapter retries transport failures and the statuses of the forcelist
\* (GET is an allowed method)
AdapterRetries(o) ==
    IF o.kind = "failure" THEN TRUE ELSE o.status \in status_forcelist

\* urllib3 Retry.get_backoff_time after the given number of consecutive
\* errors: nothing before the first retry, then backoff_factor * 2^(errors - 1)
get_backoff_time(errors) ==
    IF errors <= 1 THEN 0 ELSE backoff_factor * Pow2(errors - 1)

\* the exception session.get raises once the Retry is exhausted: a forcelist
\* status gives RetryError, a connect timeout ConnectTimeout (a Timeout, caught
\* by the first handler), a read timeout or a connection error ConnectionError
ExhaustedException(o) ==
    IF o.kind = "status" THEN "RetryError"
    ELSE IF o.what = "connect_timeout" THEN "Timeout"
    ELSE "ConnectionError"

\* what _make_api_request does next
Return == [do |-> "return"]

Raise(message) == [do |-> "raise", message |-> message]

RetryAfter(delay) == [do |-> "retry", delay |-> delay]

\* the sleep-and-continue or final raise shared by every retried branch
RetryOrRaise(attempt, message) ==
    IF attempt < max_retries - 1
    THEN RetryAfter(base_delay * Pow2(attempt))
    ELSE Raise(message)

HandleResponse_retries_403(status, attempt) ==
    IF status \in {429, 403}
    THEN RetryOrRaise(attempt, "API rate limit exceeded. Please try again later.")
    ELSE IF status = 400
    THEN Raise("Invalid request. Please check the URL format.")
    ELSE IF status # 200
    THEN Raise("API request failed with status " \o ToString(status))
    ELSE Return

\* the status checks on the response session.get returned
HandleResponse(status, attempt) ==
    IF status = 429
    THEN RetryOrRaise(attempt, "API rate limit exceeded. Please try again later.")
    ELSE IF status = 400
    THEN Raise("Invalid request. Please check the URL format.")
    ELSE IF status = 403
    THEN Raise("API key is invalid or quota exceeded. Please check your API key.")
    ELSE IF status # 200
    THEN Raise("API request failed with status " \o ToString(status))
    ELSE Return

\* the three except clauses, in their order
HandleException(type, o, attempt) ==
    IF type = "Timeout"
    THEN RetryOrRaise(attempt,
            "Request timed out after 3 attempts. The website may be too slow to analyze.")
    ELSE IF type = "ConnectionError"
    THEN RetryOrRaise(attempt,
            "Connection error after 3 attempts. Please check your internet connection.")
    ELSE RetryOrRaise(attempt,
            "Network error during API request after 3 attempts: too many "
                \o ToString(o.status) \o " error responses")

\* _validate_url
_validate_url(url) ==
    Len(url) > 0 /\ (StartsWith(url, "http://") \/ StartsWith(url, "https://"))

Strategies == <<"mobile", "desktop">>

\* the outcome of a call: a value, or an exception with its message
Returned(value) == [status |-> "returned", value |-> value]

Failed(message) == [status |-> "raised", message |-> message]

\* _process_api_response, as far as analyze_url reads its result
_process_api_response(body, url, strategy) ==
    [url |-> url, strategy |-> strategy, performance_score |-> body]

\* analyze: every exception is wrapped
analyze(url, strategy, request) ==
    IF ~_validate_url(url)
    THEN Failed("PageSpeed analysis failed: Invalid URL format")
    ELSE IF request.status = "raised"
    THEN Failed("PageSpeed analysis failed: " \o request.message)
    ELSE Returned(_process_api_response(request.value, url, strategy))

\* the combined result of analyze_url; the averages are halves of hundredths
CombinedResults(url, mobile_results, desktop_results) ==
    [url |-> url, mobile |-> mobile_results, desktop |-> desktop_results,
     overall |-> [avg_performance_x2 |->
        mobile_results.performance_score + desktop_results.performance_score]]

analyze_url_partial(url, results, measured) ==
    IF measured.status = "raised"
    THEN IF Len(results) = 1
         THEN [pc |-> "done", results |-> results,
               result |-> Returned(CombinedResults(url, results[1],
                    [url |-> url, strategy |-> "desktop", performance_score |-> 0]))]
         ELSE [pc |-> "done", results |-> results,
               result |-> Failed("URL analysis failed: " \o measured.message)]
    ELSE IF Len(results) + 1 < Len(Strategies)
    THEN [pc |-> "request", results |-> Append(results, measured.value),
          result |-> <<>>]
    ELSE [pc |-> "done", results |-> Append(results, measured.value),
          result |-> Returned(CombinedResults(url, results[1], measured.value))]

\* analyze_url after one analyze call ended: an exception is wrapped and
\* raised, the mobile result is kept for the desktop call, and the desktop
\* result completes the combined result
analyze_url(url, results, measured) ==
    IF measured.status = "raised"
    THEN [pc |-> "done", results |-> results,
          result |-> Failed("URL analysis failed: " \o measured.message)]
    ELSE IF Len(results) + 1 < Len(Strategies)
    THEN [pc |-> "request", results |-> Append(results, measured.value),
          result |-> <<>>]
    ELSE [pc |-> "done", results |-> Append(results, measured.value),
          result |-> Returned(CombinedResults(url, results[1], measured.value))]

\* events of the log of one _make_api_request call
Sleep(by, delay) == [by |-> by, delay |-> delay]

NoRequest == [outcome |-> Failure("none"), sleeps |-> <<>>]

ApiUrls == {"https://example.com", "http://example.com", "example.com", ""}

ApiInit ==
    /\ AiIdle
    /\ SeoIdle
    /\ PsiIdle
    /\ ImpIdle
    /\ CrIdle
    /\ PgIdle
    /\ TpIdle
    /\ StIdle
    /\ SpIdle
    /\ api_pc = "start"
    /\ api_url \in ApiUrls
    /\ api_results = <<>>
    /\ api_measured = <<>>
    /\ api_attempt = 0
    /\ api_retries_left = retry_total
    /\ api_requests = 0
    /\ api_log = <<>>
    /\ api_last = NoRequest
    /\ api_result = <<>>

\* what analyze_url leaves alone
NotApi == <<ai_vars, seo_vars, psi_vars, imp_vars, cr_vars, pg_vars, tp_vars, st_vars, sp_vars>>

\* one analyze call has ended with the given outcome of _make_api_request:
\* analyze wraps it, analyze_url goes on to the next strategy or ends
ApiMeasured(request) ==
    LET Go(measured) ==
            LET Apply(n) ==
                    /\ api_pc' = n.pc
                    /\ api_results' = n.results
                    /\ api_result' = n.result
                    /\ api_measured' = Append(api_measured, measured)
            IN  Apply(analyze_url(api_url, api_results, measured))
    IN  Go(analyze(api_url, Strategies[Len(api_results) + 1], request))

\* analyze_url up to the first HTTP request: an invalid URL ends the mobile
\* analyze call before any request
ApiStart ==
    /\ api_pc = "start"
    /\ IF _validate_url(api_url)
       THEN /\ api_pc' = "request"
            /\ UNCHANGED <<api_results, api_measured, api_result>>
       ELSE ApiMeasured(Failed(""))
    /\ UNCHANGED <<api_url, api_attempt, api_retries_left, api_requests,
                   api_log, api_last, NotApi>>

\* an HTTP request the adapter retries by itself: it sleeps its backoff and
\* sends the request again, inside the same session.get call
ApiAdapterRetry ==
    /\ api_pc = "request"
    /\ api_retries_left > 0
    /\ \E o \in HttpOutcomes :
        /\ AdapterRetries(o)
        /\ LET Backoff(delay) ==
                api_last' = [outcome |-> o,
                             sleeps |-> IF delay = 0 THEN <<>>
                                        ELSE <<Sleep("adapter", delay)>>]
           IN  Backoff(get_backoff_time(retry_total - api_retries_left + 1))
    /\ api_retries_left' = api_retries_left - 1
    /\ api_requests' = api_requests + 1
    /\ UNCHANGED <<api_pc, api_url, api_results, api_measured, api_attempt,
                   api_log, api_result, NotApi>>

\* the step _make_api_request takes on what session.get gave it: sleep and
\* start the next attempt, or end the analyze call; the next analyze call
\* starts a new _make_api_request
ApiHandled(o, cause, next) ==
    /\ IF next.do = "retry"
       THEN /\ api_attempt' = api_attempt + 1
            /\ api_retries_left' = retry_total
            /\ api_requests' = api_requests + 1
            /\ api_log' = Append(api_log, [cause |-> cause, slept |-> next.delay,
                                              raised |-> ""])
            /\ api_last' = [outcome |-> o, sleeps |-> <<Sleep("caller", next.delay)>>]
            /\ UNCHANGED <<api_pc, api_results, api_measured, api_result>>
       ELSE /\ api_last' = [outcome |-> o, sleeps |-> <<>>]
            /\ IF next.do = "raise"
               THEN /\ ApiMeasured(Failed(next.message))
                    /\ api_log' = Append(api_log, [cause |-> cause, slept |-> 0,
                                                  raised |-> next.message])
                    /\ api_requests' = api_requests + 1
                    /\ UNCHANGED <<api_attempt, api_retries_left>>
               ELSE /\ \E body \in Bodies : ApiMeasured(Returned(body))
                    /\ IF api_pc' = "request"
                       THEN /\ api_attempt' = 0
                            /\ api_retries_left' = retry_total
                            /\ api_requests' = 0
                            /\ api_log' = <<>>
                       ELSE /\ api_requests' = api_requests + 1
                            /\ UNCHANGED <<api_attempt, api_retries_left, api_log>>
    /\ UNCHANGED <<api_url, NotApi>>

\* an HTTP request that exhausts the adapter's Retry: session.get raises and
\* one of the except clauses of _make_api_request takes over
ApiAttemptFails ==
    /\ api_pc = "request"
    /\ api_retries_left = 0
    /\ \E o \in HttpOutcomes :
        /\ AdapterRetries(o)
        /\ ApiHandled(o, IF o.kind = "status" THEN ToString(o.status) ELSE o.what,
                      HandleException(ExhaustedException(o), o, api_attempt))

\* an HTTP request answered with a status the adapter hands back: the status
\* checks of _make_api_request decide
ApiResponse ==
    /\ api_pc = "request"
    /\ \E o \in HttpOutcomes :
        /\ ~AdapterRetries(o)
        /\ ApiHandled(o, ToString(o.status), HandleResponse(o.status, api_attempt))

ApiNext ==
    \/ ApiStart
    \/ ApiAdapterRetry
    \/ ApiAttemptFails
    \/ ApiResponse

SpecApi == ApiInit /\ [][ApiNext]_vars

\* C15 (as stated): one analyze call sends at most 3 HTTP requests to the
\* PageSpeed API, whatever 429, 5xx, timeout and connection-error outcomes it
\* meets
C15_AtMostThreeRequests == api_requests <= max_retries

\* the outcomes the loop of _make_api_request is said to retry
RetriedCauses == {"429", "connect_timeout", "read_timeout", "connection_error"}

\* C16 (as stated): an attempt k = 1, 2 that ends in HTTP 429, a timeout or a
\* connection error is followed by a sleep of 2 * 2^(k-1) seconds and a retry;
\* the third such failure raises without a sleep, and a third 429 raises the
\* rate-limit error
C16_BackoffThenRateLimit ==
    /\ \A k \in 1..Len(api_log) :
        api_log[k].cause \in RetriedCauses =>
            IF k < max_retries
            THEN api_log[k].slept = 2 * Pow2(k - 1) /\ api_log[k].raised = ""
            ELSE api_log[k].slept = 0 /\ api_log[k].raised # ""
    /\ (Len(api_log) = max_retries /\ api_log[max_retries].cause = "429") =>
        api_log[max_retries].raised = "API rate limit exceeded. Please try again later."

\* C17: an HTTP 400 or 403 response on any attempt is fatal at once:
\* _make_api_request raises its message for that status, no sleep follows the
\* response and analyze_url has ended, so that no further request is sent
C17_FatalStatuses ==
    api_last.outcome \in {Status(400), Status(403)} =>
        /\ api_last.sleeps = <<>>
        /\ api_pc = "done"
        /\ api_result.status = "raised"
        /\ api_log[Len(api_log)].slept = 0
        /\ api_log[Len(api_log)].raised =
            IF api_last.outcome = Status(400)
            THEN "Invalid request. Please check the URL format."
            ELSE "API key is invalid or quota exceeded. Please check your API key."

\* a 403 answers the desktop call's second attempt, after the adapter and the
\* loop have retried
C17_Witness ==
    /\ api_pc = "done"
    /\ api_last.outcome = Status(403)
    /\ api_attempt = 1
    /\ Len(api_results) = 1
    /\ api_requests = 6

\* C18: analyze_url returns the combined result only when the mobile and the
\* desktop analyze call both returned; when either raised, analyze_url raises
\* that error, wrapped, and returns nothing
C18_BothRequired ==
    IF api_pc # "done" THEN api_result = <<>>
    ELSE LET failed == {i \in 1..Len(api_measured) : api_measured[i].status = "raised"}
         IN  IF failed # {}
             THEN /\ failed = {Len(api_measured)}
                  /\ api_result = Failed("URL analysis failed: "
                        \o api_measured[Len(api_measured)].message)
             ELSE /\ Len(api_measured) = Len(Strategies)
                  /\ api_result = Returned(CombinedResults(api_url,
                        api_measured[1].value, api_measured[2].value))

\* the mobile call returned and the desktop call raised
C18_Witness ==
    /\ api_pc = "done"
    /\ Len(api_measured) = 2
    /\ api_measured[1].status = "returned"
    /\ api_measured[2].status = "raised"
    /\ api_result.status = "raised"

\* ---------------------------------------------------------------------------
\* Prompt generator: generate_prompt -> _create_enhanced_prompt, the
\* list-valued fields of the AI analysis
\* ---------------------------------------------------------------------------

\* what a key of a section of ai_analysis can hold besides a string or a list
\* of strings: nothing (the key is missing), None, or a number
FieldMissing == [kind |-> "missing", s |-> "", l |-> <<>>]

NoneValue == [kind |-> "none", s |-> "", l |-> <<>>]

Number == [kind |-> "number", s |-> "5", l |-> <<>>]

\* the list-valued fields in the order of their extraction: the local
\* variable, the section and key it is read from, the label of its line in the
\* prompt, the list of the else branch and whether there is an else branch
ListFields ==
    << [name |-> "brand_colors", section |-> "brand_identity", key |-> "colors",
        label |-> "**Brand Colors:** ", has_else |-> FALSE, default |-> <<>>],
       [name |-> "pain_points", section |-> "target_audience", key |-> "pain_points",
        label |-> "**Pain Points:** ", has_else |-> TRUE,
        default |-> <<"Need reliable professional services">>],
       [name |-> "motivations", section |-> "target_audience", key |-> "motivations",
        label |-> "**Motivations:** ", has_else |-> TRUE,
        default |-> <<"Business growth and success">>],
       [name |-> "primary_ctas", section |-> "conversion_elements", key |-> "primary_ctas",
        label |-> "**Primary CTAs:** ", has_else |-> TRUE,
        default |-> <<"Contact Us", "Get Quote">>],
       [name |-> "trust_elements", section |-> "conversion_elements", key |-> "trust_elements",
        label |-> "**Trust Elements:** ", has_else |-> TRUE,
        default |-> <<"Testimonials", "Certifications">>],
       [name |-> "benefits", section |-> "value_propositions", key |-> "benefits",
        label |-> "**Key Benefits:** ", has_else |-> TRUE,
        default |-> <<"Quality service", "Professional results">>],
       [name |-> "key_messages", section |-> "content_strategy", key |-> "key_messages",
        label |-> "**Key Messages:** ", has_else |-> TRUE,
        default |-> <<"Professional service", "Quality results">>],
       [name |-> "content_themes", section |-> "content_strategy", key |-> "content_themes",
        label |-> "**Content Themes:** ", has_else |-> TRUE,
        default |-> <<"Professional expertise", "Quality service">>],
       [name |-> "essential_features", section |-> "technical_insights",
        key |-> "essential_features",
        label |-> "**Essential Features:** ", has_else |-> TRUE,
        default |-> <<"Contact forms", "Our Services", "About page">>],
       [name |-> "performance_requirements", section |-> "technical_insights",
        key |-> "performance_requirements",
        label |-> "**Performance Requirements:** ", has_else |-> TRUE,
        default |-> <<"Fast loading", "Mobile responsive">>],
       [name |-> "seo_requirements", section |-> "technical_insights",
        key |-> "seo_requirements",
        label |-> "**SEO Requirements:** ", has_else |-> TRUE,
        default |-> <<"Meta tags", "Structured data">>] >>

FieldNames == {ListFields[i].name : i \in 1..Len(ListFields)}

\* [str(x) for x in xs if x] on a list of strings
KeepTruthy(xs) == LET NonEmpty(x) == x # "" IN SelectSeq(xs, NonEmpty)

\* section.get(key, []) followed by the isinstance test of the field: a list
\* is filtered, any other value is replaced in the else branch, if there is one
ExtractList(field, value) ==
    LET Got(v) == IF v.kind = "list" THEN List(KeepTruthy(v.l))
                  ELSE IF field.has_else THEN List(field.default)
                  ELSE v
    IN  Got(IF value.kind = "missing" THEN List(<<>>) ELSE value)

\* ', '.join(xs) on a sequence of strings
RECURSIVE Join(_)
Join(xs) ==
    IF Len(xs) = 0 THEN ""
    ELSE IF Len(xs) = 1 THEN xs[1]
    ELSE xs[1] \o ", " \o Join(Tail(xs))

\* ', '.join(v): a list of strings and the characters of a string are joined,
\* None and a number raise TypeError
JoinValue(v) ==
    IF v.kind = "list" THEN Returned(Join(v.l))
    ELSE IF v.kind = "str" THEN Returned(Join([i \in 1..Len(v.s) |-> Ch(v.s, i)]))
    ELSE Failed("can only join an iterable")

\* the lines of the prompt that render the list-valued fields, by field (the
\* instruction lines further down interpolate the same joined texts)
_create_enhanced_prompt(analysis) ==
    LET Render(joined) ==
            IF \E i \in 1..Len(ListFields) : joined[i].status = "raised"
            THEN Failed("can only join an iterable")
            ELSE Returned([i \in 1..Len(ListFields) |->
                            ListFields[i].label \o joined[i].value])
    IN  Render([i \in 1..Len(ListFields) |->
                JoinValue(ExtractList(ListFields[i], analysis[ListFields[i].name]))])

\* generate_prompt: any exception is wrapped
generate_prompt(analysis) ==
    LET Wrap(prompt) ==
            IF prompt.status = "raised"
            THEN Failed("AI prompt generation failed: " \o prompt.message)
            ELSE prompt
    IN  Wrap(_create_enhanced_prompt(analysis))

\* the values a field takes in the inputs
FieldValues ==
    {FieldMissing, NoneValue, Number, Str("Alpha"), List(<<>>), List(<<"">>),
     List(<<"Alpha">>), List(<<"Alpha", "Beta">>)}

PgInit ==
    /\ AiIdle
    /\ SeoIdle
    /\ PsiIdle
    /\ ImpIdle
    /\ CrIdle
    /\ ApiIdle
    /\ TpIdle
    /\ StIdle
    /\ SpIdle
    /\ pg_pc = "start"
    /\ pg_ai_analysis \in
        {[f \in FieldNames |-> IF f = g THEN v ELSE w] :
            g \in FieldNames, v \in FieldValues, w \in FieldValues}
    /\ pg_result = <<>>

\* what generate_prompt leaves alone
NotPg == <<ai_vars, seo_vars, psi_vars, imp_vars, cr_vars, api_vars, tp_vars, st_vars, sp_vars>>

PgGenerate ==
    /\ pg_pc = "start"
    /\ pg_pc' = "done"
    /\ pg_result' = generate_prompt(pg_ai_analysis)
    /\ UNCHANGED <<pg_ai_analysis, NotPg>>

PgNext == PgGenerate

SpecPrompt == PgInit /\ [][PgNext]_vars

\* the text rendered for the i-th list-valued field
Rendered(i) ==
    SubSeq(pg_result.value[i], Len(ListFields[i].label) + 1, Len(pg_result.value[i]))

\* C19 (as stated): whatever each list-valued field holds (nothing, an empty
\* list, a non-list value or a non-empty list), generate_prompt returns a text
\* and the text rendered for each field is non-empty; a missing, empty or
\* wrong-typed value is rendered as the field's canned default
C19_ListFieldsNeverEmpty ==
    pg_pc = "done" =>
        /\ pg_result.status = "returned"
        /\ \A i \in 1..Len(ListFields) :
            /\ Rendered(i) # ""
            /\ pg_ai_analysis[ListFields[i].name] \in
                    {FieldMissing, NoneValue, Number, Str("Alpha"), List(<<>>)}
                => Rendered(i) = Join(ListFields[i].default)

\* ---------------------------------------------------------------------------
\* Target pages: _find_target_pages over the anchors of the main page
\* ---------------------------------------------------------------------------

\* the scheme of a URL, lower-cased: the letters before the first colon
UrlScheme(url) ==
    LET i == FindCh(url, ":", 1)
    IN  IF i > 1 /\ \A k \in 1..(i - 1) : Ch(url, k) \in LowerLetters \cup UpperLetters
        THEN StrLower(SubSeq(url, 1, i - 1))
        ELSE ""

\* urllib.parse.urlparse, for URLs without query: the fragment is what
\* follows the first #, the netloc is what follows a leading // up to the
\* next slash
urlparse(url) ==
    LET Split(scheme, rest, fragment) ==
            IF StartsWith(rest, "//")
            THEN [scheme |-> scheme,
                  netloc |-> SubSeq(rest, 3, FirstIn(rest, 3, {"/"}) - 1),
                  path |-> SubSeq(rest, FirstIn(rest, 3, {"/"}), Len(rest)),
                  fragment |-> fragment]
            ELSE [scheme |-> scheme, netloc |-> "", path |-> rest,
                  fragment |-> fragment]
        Parts(scheme, main, fragment) ==
            Split(scheme, IF scheme = "" THEN main
                          ELSE SubSeq(main, Len(scheme) + 2, Len(main)), fragment)
        Whole(i) ==
            IF i = 0 THEN Parts(UrlScheme(url), url, "")
            ELSE Parts(UrlScheme(SubSeq(url, 1, i - 1)), SubSeq(url, 1, i - 1),
                       SubSeq(url, i + 1, Len(url)))
    IN  Whole(FindCh(url, "#", 1))

\* the directory of a base path: up to its last slash
BaseDir(path) ==
    LET slashes == {i \in 1..Len(path) : Ch(path, i) = "/"}
    IN  IF slashes = {} THEN "/" ELSE SubSeq(path, 1, MaxOf(slashes))

\* urllib.parse.urljoin for an http(s) base, on paths without dot segments;
\* the fragment of the result is the fragment of url
urljoin(base, url) ==
    LET Joined(b, u) ==
            LET scheme == IF u.scheme = "" THEN b.scheme ELSE u.scheme
                hash == IF u.fragment = "" THEN "" ELSE "#" \o u.fragment
            IN  IF scheme # b.scheme THEN url
                ELSE IF u.netloc # ""
                THEN scheme \o "://" \o u.netloc \o u.path \o hash
                ELSE IF u.path = ""
                THEN scheme \o "://" \o b.netloc \o b.path \o hash
                ELSE IF StartsWith(u.path, "/")
                THEN scheme \o "://" \o b.netloc \o u.path \o hash
                ELSE scheme \o "://" \o b.netloc \o BaseDir(b.path) \o u.path \o hash
    IN  IF url = "" THEN base ELSE Joined(urlparse(base), urlparse(url))

\* self.target_pages
target_pages ==
    {"about", "contact", "services", "products", "home", "index",
     "team", "careers", "blog", "news", "pricing", "features"}

\* the keywords of the footer search
footer_pages == {"about", "contact", "privacy", "terms"}

\* any(page_type in url_path or page_type in link_text for page_type in pages)
MatchesPages(full_url, text, pages) ==
    LET AnyPage(url_path, link_text) ==
            \E page_type \in pages :
                Contains(url_path, page_type) \/ Contains(link_text, page_type)
    IN  AnyPage(StrLower(urlparse(full_url).path), StrLower(text))

\* what an anchor of a navigation-like element adds to target_urls
NavTargets(base_url, anchor) ==
    LET Check(full_url) ==
            IF urlparse(full_url).netloc = urlparse(base_url).netloc
                /\ MatchesPages(full_url, anchor.text, target_pages)
            THEN {full_url} ELSE {}
        Absolute(href) ==
            IF href = "" THEN {}
            ELSE IF StartsWith(href, "/") THEN Check(urljoin(base_url, href))
            ELSE IF ~(StartsWith(href, "http://") \/ StartsWith(href, "https://"))
            THEN Check(urljoin(base_url, href))
            ELSE Check(href)
    IN  Absolute(Strip(anchor.href))

\* what an anchor of the footer adds to target_urls
FooterTargets(base_url, anchor) ==
    LET Check(full_url) ==
            IF MatchesPages(full_url, anchor.text, footer_pages)
            THEN {full_url} ELSE {}
        Absolute(href) ==
            IF StartsWith(href, "/") THEN Check(urljoin(base_url, href)) ELSE {}
    IN  Absolute(Strip(anchor.href))

\* _find_target_pages: the returned list holds the elements of this set
_find_target_pages(base_url, anchors) ==
    (UNION {IF anchors[i].place = "nav" THEN NavTargets(base_url, anchors[i])
            ELSE FooterTargets(base_url, anchors[i]) : i \in 1..Len(anchors)})
        \ {base_url, base_url \o "/"}

\* an anchor of the main page, in a navigation-like element or in the footer
Anchor(place, href, text) == [place |-> place, href |-> href, text |-> text]

Hrefs ==
    {"/about", "contact", "//other.com/about", "https://example.com/about",
     "https://other.com/about", " /terms ", "/", "mailto:info@example.com",
     "#about"}

LinkTexts == {"About us", "Read more"}

Anchors == {Anchor(p, h, t) : p \in {"nav", "footer"}, h \in Hrefs, t \in LinkTexts}

\* the most anchors on the main page
MaxAnchors == 2

\* list(target_urls): the elements of the set in the order its iteration
\* gives. The order of a set of str follows the strings' hashes, which differ
\* from one interpreter process to the next, so every order can be returned
ListOfSet(target_urls) ==
    {additional_urls \in [1..Cardinality(target_urls) -> target_urls] :
        \A i, j \in 1..Cardinality(target_urls) :
            additional_urls[i] = additional_urls[j] => i = j}

\* the values of max_pages of the crawls (the default is 10)
Budgets == {2, 10}

\* the most crawls of one document
MaxCrawls == 2

TpInit ==
    /\ AiIdle
    /\ SeoIdle
    /\ PsiIdle
    /\ ImpIdle
    /\ CrIdle
    /\ ApiIdle
    /\ PgIdle
    /\ StIdle
    /\ SpIdle
    /\ tp_pc = "start"
    /\ tp_base_url \in {"https://example.com", "http://example.com/shop"}
    /\ tp_anchors \in SeqsUpTo(Anchors, MaxAnchors)
    /\ tp_target_urls = {}
    /\ tp_max_pages \in Budgets
    /\ tp_crawls = <<>>

\* what _find_target_pages leaves alone
NotTp == <<ai_vars, seo_vars, psi_vars, imp_vars, cr_vars, api_vars, pg_vars, st_vars, sp_vars>>

TpFind ==
    /\ tp_pc = "start"
    /\ tp_pc' = "done"
    /\ tp_target_urls' = _find_target_pages(tp_base_url, tp_anchors)
    /\ UNCHANGED <<tp_base_url, tp_anchors, tp_max_pages, tp_crawls, NotTp>>

\* one crawl of the document: scrape_website takes the list that
\* _find_target_pages returns and requests its first max_pages - 1 entries
TpCrawl ==
    /\ tp_pc = "done"
    /\ Len(tp_crawls) < MaxCrawls
    /\ \E additional_urls \in ListOfSet(tp_target_urls) :
        tp_crawls' = Append(tp_crawls, PySliceTo(additional_urls, tp_max_pages - 1))
    /\ UNCHANGED <<tp_pc, tp_base_url, tp_anchors, tp_target_urls, tp_max_pages, NotTp>>

TpNext ==
    \/ TpFind
    \/ TpCrawl

SpecTargets == TpInit /\ [][TpNext]_vars

RequestUrl(url) ==
    LET Sent(u) == u.scheme \o "://" \o u.netloc \o (IF u.path = "" THEN "/" ELSE u.path)
    IN  Sent(urlparse(url))

\* C21 (as stated): within one crawl no URL is fetched twice: the main page
\* and the target URLs found on it are requested under pairwise different
\* URLs, and no target is the base URL with or without a trailing slash
C21_NoUrlFetchedTwice ==
    tp_pc = "done" =>
        /\ tp_target_urls \cap {tp_base_url, tp_base_url \o "/"} = {}
        /\ \A u, v \in tp_target_urls \cup {tp_base_url} :
            RequestUrl(u) = RequestUrl(v) => u = v

\* the order in which _find_target_pages meets the anchors: those of the
\* navigation-like elements first, then those of the footer
ScanOrder(anchors) ==
    SelectSeq(anchors, LAMBDA a : a.place = "nav")
        \o SelectSeq(anchors, LAMBDA a : a.place = "footer")

RECURSIVE DiscoveryOrder(_, _, _)
\* the URLs in the order of their first target_urls.add, without the two
\* that are discarded at the end
DiscoveryOrder(base_url, scanned, seen) ==
    IF scanned = <<>> THEN <<>>
    ELSE LET Added(urls) ==
                (IF urls = {} THEN <<>> ELSE <<CHOOSE u \in urls : TRUE>>)
                    \o DiscoveryOrder(base_url, Tail(scanned), seen \cup urls)
         IN  Added((IF Head(scanned).place = "nav"
                    THEN NavTargets(base_url, Head(scanned))
                    ELSE FooterTargets(base_url, Head(scanned)))
                   \ (seen \cup {base_url, base_url \o "/"}))

\* C28 (as stated): every crawl of a document requests the first
\* max_pages - 1 targets in the order of their discovery, so two crawls of the
\* same document request the same targets in the same order
C28_InsertionOrder ==
    /\ \A c \in 1..Len(tp_crawls) :
        tp_crawls[c] = PySliceTo(DiscoveryOrder(tp_base_url, ScanOrder(tp_anchors), {}),
                                 tp_max_pages - 1)
    /\ \A c, d \in 1..Len(tp_crawls) : tp_crawls[c] = tp_crawls[d]

\* ---------------------------------------------------------------------------
\* Site compilation: the merged meta tags and the CSS analysis of
\* _compile_website_data
\* ---------------------------------------------------------------------------

\* dict.update: the keys of other replace or extend those of d
DictUpdate(d, other) ==
    [k \in DOMAIN d \cup DOMAIN other |-> IF k \in DOMAIN other THEN other[k] ELSE d[k]]

\* the loop over the pages: a page typed home updates all_meta_tags, any
\* other page only while all_meta_tags is still empty
RECURSIVE CollectMetaTags(_, _)
CollectMetaTags(pages, all_meta_tags) ==
    IF pages = <<>> THEN all_meta_tags
    ELSE CollectMetaTags(Tail(pages),
            IF Head(pages).page_type = "home" \/ DOMAIN all_meta_tags = {}
            THEN DictUpdate(all_meta_tags, Head(pages).meta_tags)
            ELSE all_meta_tags)

\* the colours and fonts kept of a stylesheet
ColorLimit == 10

FontLimit == 5

\* the css_analysis before any stylesheet is analysed, and after a failure
NoCssAnalysis(css_url) == [colors |-> <<>>, fonts |-> <<>>, css_url |-> css_url]

_analyze_css_styles_unlimited(css_url, css) ==
    IF css.outcome # "ok" THEN NoCssAnalysis(css_url)
    ELSE [colors |-> css.colors, fonts |-> css.fonts, css_url |-> css_url]

\* _analyze_css_styles: any exception of the request or the scan is caught
\* and gives empty lists; otherwise the distinct colours and fonts found are
\* cut to their limits
_analyze_css_styles(css_url, css) ==
    IF css.outcome # "ok" THEN NoCssAnalysis(css_url)
    ELSE [colors |-> PySliceTo(css.colors, ColorLimit),
          fonts |-> PySliceTo(css.fonts, FontLimit),
          css_url |-> css_url]

\* the css_analysis of _compile_website_data: the first stylesheet of the
\* main page, if it links one
CssAnalysis(css_files, css) ==
    IF css_files = <<>> THEN NoCssAnalysis("")
    ELSE _analyze_css_styles(css_files[1], css)

\* the most pages compiled, and the most distinct colours and fonts a
\* stylesheet holds
MaxSitePages == 3

MaxColorsFound == 11

MaxFontsFound == 6

\* the meta tags of a page
MetaTagChoices ==
    {<<>>,
     [description |-> "First"],
     [description |-> "Second", keywords |-> "K"],
     [keywords |-> "L", author |-> "A"]}

SitePages ==
    {[page_type |-> t, meta_tags |-> m] : t \in {"home", "about", "other"},
                                           m \in MetaTagChoices}

\* what the request for the stylesheet and the scan of its text give
CssOutcomes ==
    {[outcome |-> o, colors |-> <<>>, fonts |-> <<>>] :
        o \in {"http_error", "timeout", "invalid_url", "scan_error"}}
    \cup {[outcome |-> "ok",
           colors |-> [i \in 1..n |-> "color" \o ToString(i)],
           fonts |-> [i \in 1..f |-> "font" \o ToString(i)]] :
            n \in {0, MaxColorsFound - 1, MaxColorsFound},
            f \in {0, MaxFontsFound - 1, MaxFontsFound}}

StInit ==
    /\ AiIdle
    /\ SeoIdle
    /\ PsiIdle
    /\ ImpIdle
    /\ CrIdle
    /\ ApiIdle
    /\ PgIdle
    /\ TpIdle
    /\ SpIdle
    /\ st_pc = "start"
    /\ st_pages \in SeqsUpTo(SitePages, MaxSitePages) \ {<<>>}
    /\ st_css_files \in {<<>>, <<"/style.css">>, <<"https://example.com/a.css", "b.css">>}
    /\ st_css \in CssOutcomes
    /\ st_css_requests = 0
    /\ st_website_data = <<>>

\* what _compile_website_data leaves alone
NotSt == <<ai_vars, seo_vars, psi_vars, imp_vars, cr_vars, api_vars, pg_vars, tp_vars, sp_vars>>

\* _compile_website_data on the scraped pages: of the compiled dict, the
\* merged meta tags and the CSS analysis
StCompile ==
    /\ st_pc = "start"
    /\ st_pc' = "done"
    /\ st_css_requests' = IF st_css_files = <<>> THEN 0 ELSE 1
    /\ st_website_data' =
        [pages_analyzed |-> Len(st_pages),
         meta_tags |-> CollectMetaTags(st_pages, <<>>),
         css_analysis |-> CssAnalysis(st_css_files, st_css)]
    /\ UNCHANGED <<st_pages, st_css_files, st_css, NotSt>>

StNext == StCompile

SpecSite == StInit /\ [][StNext]_vars

\* a page's meta tags added to a dict without replacing a key it holds
AddMissingKeys(d, other) == DictUpdate(other, d)

\* the first page's meta tags, each later page adding only its new keys
RECURSIVE FirstPageBase(_, _)
FirstPageBase(pages, merged) ==
    IF pages = <<>> THEN merged
    ELSE FirstPageBase(Tail(pages), AddMissingKeys(merged, Head(pages).meta_tags))

\* C22 (as stated): in the merged meta tags the values of the pages typed
\* home take precedence; when no page is typed home, the first page's meta
\* tags are the base and each later page adds only the keys not yet present
C22_MetaTagTieBreak ==
    st_pc = "done" =>
        LET homes == {i \in 1..Len(st_pages) : st_pages[i].page_type = "home"}
        IN  IF homes = {}
            THEN st_website_data.meta_tags = FirstPageBase(st_pages, <<>>)
            ELSE \A i \in homes : \A k \in DOMAIN st_pages[i].meta_tags :
                    /\ k \in DOMAIN st_website_data.meta_tags
                    /\ \E j \in homes :
                        /\ k \in DOMAIN st_pages[j].meta_tags
                        /\ st_website_data.meta_tags[k] = st_pages[j].meta_tags[k]

\* C24: a failed request for the stylesheet or a failed scan gives empty
\* colours and fonts and the site data is compiled all the same; a scanned
\* stylesheet gives at most 10 colours and at most 5 fonts
C24_CssNeverBlocks ==
    st_pc = "done" =>
        /\ st_website_data.pages_analyzed = Len(st_pages)
        /\ (st_css_files # <<>> /\ st_css.outcome # "ok") =>
            /\ st_website_data.css_analysis.colors = <<>>
            /\ st_website_data.css_analysis.fonts = <<>>
        /\ Len(st_website_data.css_analysis.colors) <= ColorLimit
        /\ Len(st_website_data.css_analysis.fonts) <= FontLimit

\* a stylesheet with 11 colours and 6 fonts was scanned
C24_Witness ==
    /\ st_pc = "done"
    /\ st_css_files # <<>>
    /\ st_css.outcome = "ok"
    /\ Len(st_css.colors) = ColorLimit + 1
    /\ Len(st_css.fonts) = FontLimit + 1
    /\ Len(st_website_data.css_analysis.colors) = ColorLimit
    /\ Len(st_website_data.css_analysis.fonts) = FontLimit

\* ---------------------------------------------------------------------------
\* Page scraping: _scrape_page on the parsed document of the main page, then
\* _find_target_pages on the same document
\* ---------------------------------------------------------------------------

\* an element of the parsed document: its tag and class, the anchors inside
\* it and, for a script of type application/ld+json, its text
Element(tag, class, anchors, body) ==
    [tag |-> tag, class |-> class, anchors |-> anchors, body |-> body]

\* the elements _extract_content and _calculate_word_count remove from the
\* document they are given
removed_tags == {"script", "style", "nav", "footer", "header"}

\* for el in soup([...]): el.decompose()
Decompose(soup) ==
    LET Kept(e) == e.tag \notin removed_tags IN SelectSeq(soup, Kept)

\* find_all(['nav', 'ul', 'div'], class_=re.compile(r'nav|menu', re.I))
IsNavLike(e) ==
    /\ e.tag \in {"nav", "ul", "div"}
    /\ (Contains(StrLower(e.class), "nav") \/ Contains(StrLower(e.class), "menu"))

\* the anchors _find_target_pages looks at: those of the navigation-like
\* elements and those of the first footer
RECURSIVE SoupAnchors(_, _)
SoupAnchors(soup, footer_seen) ==
    IF soup = <<>> THEN <<>>
    ELSE LET e == Head(soup)
         IN  (IF IsNavLike(e)
              THEN [i \in 1..Len(e.anchors) |->
                        Anchor("nav", e.anchors[i].href, e.anchors[i].text)]
              ELSE IF e.tag = "footer" /\ ~footer_seen
              THEN [i \in 1..Len(e.anchors) |->
                        Anchor("footer", e.anchors[i].href, e.anchors[i].text)]
              ELSE <<>>)
             \o SoupAnchors(Tail(soup), footer_seen \/ e.tag = "footer")

\* all a elements with an href, in document order
RECURSIVE AllAnchors(_)
AllAnchors(soup) ==
    IF soup = <<>> THEN <<>> ELSE Head(soup).anchors \o AllAnchors(Tail(soup))

\* the link _extract_links records for an anchor: none for an empty href and
\* for #, mailto: and tel: targets; an href that starts with / or has no
\* http(s) prefix is joined with base_url and taken as internal
LinkOf(base_url, a) ==
    LET Classify(href) ==
            IF href = "" \/ StartsWith(href, "#") \/ StartsWith(href, "mailto:")
                \/ StartsWith(href, "tel:")
            THEN [kind |-> "skipped", url |-> "", text |-> ""]
            ELSE IF StartsWith(href, "/")
                    \/ ~(StartsWith(href, "http://") \/ StartsWith(href, "https://"))
            THEN [kind |-> "internal", url |-> urljoin(base_url, href),
                  text |-> Strip(a.text)]
            ELSE [kind |-> IF urlparse(href).netloc = urlparse(base_url).netloc
                           THEN "internal" ELSE "external",
                  url |-> href, text |-> Strip(a.text)]
    IN  Classify(Strip(a.href))

_extract_links(soup, base_url) ==
    LET Lists(found) ==
            LET Internal(l) == l.kind = "internal"
                External(l) == l.kind = "external"
                Entry(ls) == [i \in 1..Len(ls) |-> Link(ls[i].url, ls[i].text)]
            IN  [internal |-> Entry(SelectSeq(found, Internal)),
                 external |-> Entry(SelectSeq(found, External))]
        Found(anchors) == [i \in 1..Len(anchors) |-> LinkOf(base_url, anchors[i])]
    IN  Lists(Found(AllAnchors(soup)))

\* _extract_structured_data, the JSON-LD entries: one per script of type
\* application/ld+json whose text json.loads accepts
_extract_structured_data(soup) ==
    LET Parses(e) == e.tag = "script" /\ json_loads(e.body).ok
        Entries(scripts) ==
            [i \in 1..Len(scripts) |-> [type |-> "json-ld", data |-> scripts[i].body]]
    IN  Entries(SelectSeq(soup, Parses))

\* self.target_pages, in the order the list is gone through
target_pages_list ==
    <<"about", "contact", "services", "products", "home", "index",
      "team", "careers", "blog", "news", "pricing", "features">>

\* str.count('/')
CountSlashes(s) == Cardinality({i \in 1..Len(s) : Ch(s, i) = "/"})

\* _identify_page_type
_identify_page_type(url, title) ==
    LET Type(url_lower, title_text) ==
            LET hits == {i \in 1..Len(target_pages_list) :
                            \/ Contains(url_lower, target_pages_list[i])
                            \/ Contains(title_text, target_pages_list[i])}
            IN  IF hits # {} THEN target_pages_list[MinOf(hits)]
                ELSE IF \E w \in {"blog", "news", "article"} : Contains(url_lower, w)
                THEN "blog"
                ELSE IF \E w \in {"shop", "store", "product"} : Contains(url_lower, w)
                THEN "product"
                ELSE IF \/ Ch(url_lower, Len(url_lower)) = "/"
                        \/ Contains(url_lower, "home")
                        \/ CountSlashes(url_lower) <= 3
                THEN "home"
                ELSE "other"
    IN  Type(StrLower(url), StrLower(title))

\* _scrape_page on a fetched document: of the page data, the links, the
\* JSON-LD entries, the page type and the document as the extraction steps
\* leave it; the steps run in the order of the dict literal, on one document
_scrape_page(url, title, document) ==
    LET After(content_soup) ==
            [url |-> url,
             links |-> _extract_links(content_soup, url),
             structured_data |-> _extract_structured_data(content_soup),
             page_type |-> _identify_page_type(url, title),
             soup |-> Decompose(content_soup)]
    IN  After(Decompose(document))

\* the anchors, elements and documents of the inputs
PageAnchors ==
    {[href |-> "/about", text |-> "About us"],
     [href |-> "contact.html", text |-> "Contact"],
     [href |-> "//other.com/about", text |-> "Partner"],
     [href |-> "https://example.com/team", text |-> "Team"],
     [href |-> "https://other.com/", text |-> "Other"],
     [href |-> "mailto:info@example.com", text |-> "Mail"],
     [href |-> "#top", text |-> "Top"]}

PageElements ==
    {Element(t[1], t[2], <<a>>, "") :
        t \in {<<"nav", "">>, <<"nav", "main-nav">>, <<"footer", "">>,
               <<"div", "Menu">>, <<"div", "content">>},
        a \in PageAnchors}
    \cup {Element("script", "", <<>>, b) : b \in {OneKeyJson, TrailingCommaJson}}

\* the most elements of a document
MaxElements == 2

PageUrls ==
    {"https://example.com", "https://example.com/team",
     "https://example.com/news/2024/launch", "https://example.com/article/7",
     "https://example.com/shop/item/7", "https://example.com/a/b"}

PageTitles == {"Welcome", "About us"}

SpInit ==
    /\ AiIdle
    /\ SeoIdle
    /\ PsiIdle
    /\ ImpIdle
    /\ CrIdle
    /\ ApiIdle
    /\ PgIdle
    /\ TpIdle
    /\ StIdle
    /\ sp_pc = "start"
    /\ \/ /\ sp_url = "https://example.com"
          /\ sp_title = "Welcome"
          /\ sp_document \in SeqsUpTo(PageElements, MaxElements)
       \/ /\ sp_url \in PageUrls
          /\ sp_title \in PageTitles
          /\ sp_document = <<>>
    /\ sp_page = <<>>
    /\ sp_additional_urls = {}

\* what scraping the main page leaves alone
NotSp == <<ai_vars, seo_vars, psi_vars, imp_vars, cr_vars, api_vars, pg_vars, tp_vars,
           st_vars>>

\* main_page = self._scrape_page(base_url), the request succeeding
SpScrapePage ==
    /\ sp_pc = "start"
    /\ sp_pc' = "scraped"
    /\ sp_page' = _scrape_page(sp_url, sp_title, sp_document)
    /\ UNCHANGED <<sp_url, sp_title, sp_document, sp_additional_urls, NotSp>>

\* additional_urls = self._find_target_pages(base_url, main_page['soup'])
SpFindTargets ==
    /\ sp_pc = "scraped"
    /\ sp_pc' = "done"
    /\ sp_additional_urls' = _find_target_pages(sp_url, SoupAnchors(sp_page.soup, FALSE))
    /\ UNCHANGED <<sp_url, sp_title, sp_document, sp_page, NotSp>>

SpNext ==
    \/ SpScrapePage
    \/ SpFindTargets

SpecPage == SpInit /\ [][SpNext]_vars

\* the page types of the PageRecord
PageTypeEnum ==
    {"home", "about", "contact", "services", "products", "blog", "product",
     "other", "unknown"}

\* C23 (as stated): the page type is a member of the enum; a page whose URL
\* contains blog, news or article is typed blog, and one whose URL contains
\* shop, store or product and no other keyword is typed product
C23_PageTypeInEnum ==
    sp_pc # "start" =>
        LET In(words) == \E w \in words : Contains(StrLower(sp_url), w)
        IN  /\ sp_page.page_type \in PageTypeEnum
            /\ In({"blog", "news", "article"}) => sp_page.page_type = "blog"
            /\ (In({"shop", "store", "product"}) /\ ~In({"blog", "news", "article"})
                    /\ ~In(target_pages) /\ sp_title = "Welcome")
                => sp_page.page_type = "product"

\* C25 (as stated): a same-host anchor of the fetched root page that stands in
\* a nav element or in the footer, and whose path or text has a target
\* keyword, is among the candidate URLs
C25_NavAndFooterScanned ==
    sp_pc = "done" =>
        \A i \in 1..Len(sp_document) :
            sp_document[i].tag \in {"nav", "footer"} =>
                \A k \in 1..Len(sp_document[i].anchors) :
                    LET a == sp_document[i].anchors[k]
                        full_url == urljoin(sp_url, Strip(a.href))
                    IN  (/\ urlparse(full_url).netloc = urlparse(sp_url).netloc
                         /\ MatchesPages(full_url, a.text,
                                IF sp_document[i].tag = "nav" THEN target_pages
                                ELSE footer_pages)
                         /\ full_url \notin {sp_url, sp_url \o "/"})
                        => full_url \in sp_additional_urls

\* C26 (as stated): every application/ld+json script of the fetched page whose
\* text is valid JSON has a json-ld entry in the page's structured_data
C26_JsonLdRecorded ==
    sp_pc # "start" =>
        \A i \in 1..Len(sp_document) :
            (sp_document[i].tag = "script" /\ json_loads(sp_document[i].body).ok) =>
                \E k \in 1..Len(sp_page.structured_data) :
                    sp_page.structured_data[k] =
                        [type |-> "json-ld", data |-> sp_document[i].body]

\* C27 (as stated): a recorded link is internal exactly when the host of its
\* resolved URL is the host of the page, and no #, mailto: or tel: target is
\* recorded
C27_InternalIffSameHost ==
    sp_pc # "start" =>
        /\ \A k \in 1..Len(sp_page.links.internal) :
            urlparse(sp_page.links.internal[k].url).netloc = urlparse(sp_url).netloc
        /\ \A k \in 1..Len(sp_page.links.external) :
            urlparse(sp_page.links.external[k].url).netloc # urlparse(sp_url).netloc
        /\ \A k \in 1..Len(sp_page.links.internal \o sp_page.links.external) :
            LET url == (sp_page.links.internal \o sp_page.links.external)[k].url
            IN  ~(Contains(url, "#") \/ StartsWith(url, "mailto:") \/ StartsWith(url, "tel:"))

====
